---- MODULE Spec2Model ----
(***************************************************************************)
(* A model of RAJA's deferred work-queue engine:                           *)
(*   - the dependency-graph executors DAGExec<loop_graph>,                  *)
(*     DAGExec<omp_task_atomic_graph> and DAGExec<omp_task_depend_graph>;   *)
(*   - SimpleVector and the three WorkStorage variants;                     *)
(*   - the WorkRunnerForallOrdered / WorkRunnerForallReverse runners.       *)
(***************************************************************************)
EXTENDS Integers, Sequences, FiniteSets, TLC

(***************************************************************************)
(* Bounds of the graph model.                                              *)
(***************************************************************************)
NumNodes == 3
MaxEmpty == 1
MaxExecs == 2

Nodes == 1..NumNodes

VARIABLES
  policy,        \* graph policy of the DAGExec: "loop", "atomic" or "depend"
  parents,       \* parents[n]: the nodes with an edge to n (fixed at build time)
  empty,         \* the nodes built as graph::Empty
  m_node_execs,  \* the order forward_traverse visits the nodes in
  m_count,       \* Node::m_count, the trigger counter of every node
  value,         \* node_data[n][i] of the MixedNodes test
  pc,            \* position of the thread that called DAGExec::exec
  idx,           \* loop index of that thread
  nc,            \* its local node_count inside traverse
  tasks,         \* the explicit OpenMP tasks generated by this execution
  status,        \* per node, in this execution: "pending", "running", "done"
  execCount,     \* per node: how often Node::exec was invoked in this execution
  run            \* number of executions started so far

gvars == <<policy, parents, empty, m_node_execs, m_count, value, pc, idx, nc,
           tasks, status, execCount, run>>

VARIABLES
  variant,   \* storage policy: "array_of_pointers", "ragged", "constant_stride"
  st,        \* the WorkStorage object and the allocator behind it
  other,     \* a second WorkStorage, the target of moves: <<>> while not constructed
  emplaced,  \* history: the records constructed by emplace, in call order
  segment,   \* the index range the enqueued loops run over
  rpc,       \* position of the caller: "build", in run's "loop", or "in_call"
  order,     \* the runner in use: "ordered" or "reverse"
  iter,      \* run's iterator, as a distance from begin()
  rargs,     \* the runtime arguments given to run
  held,      \* history: the records the storage held when run was called
  log,       \* history: the calls made by the current run
  counter,   \* the shared counter array the loop bodies add to
  runs       \* number of runs started so far

svars == <<variant, st, other, emplaced, segment, rpc, order, iter, rargs, held, log, counter, runs>>

VARIABLES
  vec,       \* a SimpleVector
  vother,    \* a second SimpleVector, the target of moves: <<>> while not constructed
  valoc,     \* the allocator both vectors use
  vop,       \* the last operation on the vectors and its argument or result
  vev,       \* the memory events of the last operation, in program order
  vpc        \* "live", "destroyed" once vec's destructor ran, "trapped"

vvars == <<vec, vother, valoc, vop, vev, vpc>>

VARIABLES
  node,      \* a WorkGroupNode
  nlog       \* history: what the node's operations did, in program order

nvars == <<node, nlog>>

VARIABLES
  zit,       \* a ZipIterator: m_iterators, the position of each component iterator
  zfirst,    \* the value zit was constructed with
  zother,    \* a second ZipIterator, copy-constructed from zit at some moment
  zop        \* history: the last operation on zit and its argument

zvars == <<zit, zfirst, zother, zop>>

vars == <<gvars, svars, vvars, nvars, zvars>>

(***************************************************************************)
(* Helpers on sets and sequences.                                          *)
(***************************************************************************)
Min(S) == CHOOSE x \in S : \A y \in S : x <= y

RECURSIVE SortedSeq(_)
SortedSeq(S) == IF S = {} THEN <<>> ELSE <<Min(S)>> \o SortedSeq(S \ {Min(S)})

RECURSIVE SumOver(_, _)
SumOver(f, S) == IF S = {} THEN 0
                 ELSE LET x == CHOOSE y \in S : TRUE IN f[x] + SumOver(f, S \ {x})

Range(s) == {s[i] : i \in 1..Len(s)}

Perms(S) == {s \in [1..Cardinality(S) -> S] : Range(s) = S}

(***************************************************************************)
(* The graph as built: Node::m_children, Node::m_parent_count and          *)
(* DAG::m_children.                                                        *)
(***************************************************************************)
Children(n) == {c \in Nodes : n \in parents[c]}

m_children(n) == SortedSeq(Children(n))

Roots == {n \in Nodes : parents[n] = {}}

dag_children == SortedSeq(Roots)

\* The DAG counts as the one parent of a node it holds directly.
m_parent_count(n) == IF parents[n] = {} THEN 1 ELSE Cardinality(parents[n])

\* forward_traverse enters a node only after all of its parents.
IsTopological(s) ==
  \A i, j \in 1..Len(s) : s[i] \in parents[s[j]] => i < j

(***************************************************************************)
(* Node::exec as the MixedNodes test builds it: an Empty node does         *)
(* nothing, every other node adds its predecessors' data to its own.       *)
(***************************************************************************)
NodeBody(n) ==
  IF n \in empty THEN value[n] ELSE value[n] + SumOver(value, parents[n])

NodeExecBegin(n) ==
  /\ status' = [status EXCEPT ![n] = "running"]
  /\ execCount' = [execCount EXCEPT ![n] = @ + 1]

NodeExecEnd(n) ==
  /\ status' = [status EXCEPT ![n] = "done"]
  /\ value' = [value EXCEPT ![n] = NodeBody(n)]

(***************************************************************************)
(* Construction of the DAG and of its DAGExec.                             *)
(***************************************************************************)
GraphInit ==
  /\ policy \in {"loop", "atomic", "depend"}
  /\ parents \in {p \in [Nodes -> SUBSET Nodes] : \A n \in Nodes : p[n] \subseteq 1..(n - 1)}
  /\ empty \in {e \in SUBSET Nodes : Cardinality(e) <= MaxEmpty}
  /\ m_node_execs \in IF policy = "atomic" THEN {<<>>}
                      ELSE {s \in Perms(Nodes) : IsTopological(s)}
  /\ m_count = [n \in Nodes |-> 0]
  /\ value = [n \in Nodes |-> 1]
  /\ pc = "idle"
  /\ idx = 0
  /\ nc = 0
  /\ tasks = <<>>
  /\ status = [n \in Nodes |-> "pending"]
  /\ execCount = [n \in Nodes |-> 0]
  /\ run = 0

(***************************************************************************)
(* DAGExec::exec(gr): gr.wait(), then the policy's body.                   *)
(***************************************************************************)
ExecStart ==
  /\ pc = "idle"
  /\ run < MaxExecs
  /\ run' = run + 1
  /\ pc' = "body"
  /\ idx' = 1
  /\ status' = [n \in Nodes |-> "pending"]
  /\ execCount' = [n \in Nodes |-> 0]
  /\ UNCHANGED <<policy, parents, empty, m_node_execs, m_count, value, nc, tasks>>
  /\ UNCHANGED <<svars, vvars, nvars, zvars>>

(***************************************************************************)
(* DAGExec<loop_graph>::exec: the nodes of m_node_execs one at a time.     *)
(***************************************************************************)
\* a loop that walks m_node_execs from its last entry to its first
LoopNodeBegin_Backwards ==
  /\ policy = "loop"
  /\ pc = "body"
  /\ idx <= Len(m_node_execs)
  /\ NodeExecBegin(m_node_execs[Len(m_node_execs) + 1 - idx])
  /\ pc' = "in_exec"
  /\ UNCHANGED <<policy, parents, empty, m_node_execs, m_count, value, idx, nc, tasks, run>>
  /\ UNCHANGED <<svars, vvars, nvars, zvars>>

LoopNodeBegin ==
  /\ policy = "loop"
  /\ pc = "body"
  /\ idx <= Len(m_node_execs)
  /\ NodeExecBegin(m_node_execs[idx])
  /\ pc' = "in_exec"
  /\ UNCHANGED <<policy, parents, empty, m_node_execs, m_count, value, idx, nc, tasks, run>>
  /\ UNCHANGED <<svars, vvars, nvars, zvars>>

LoopNodeEnd ==
  /\ policy = "loop"
  /\ pc = "in_exec"
  /\ NodeExecEnd(m_node_execs[idx])
  /\ pc' = "body"
  /\ idx' = idx + 1
  /\ UNCHANGED <<policy, parents, empty, m_node_execs, m_count, nc, tasks, execCount, run>>
  /\ UNCHANGED <<svars, vvars, nvars, zvars>>

LoopReturn ==
  /\ policy = "loop"
  /\ pc = "body"
  /\ idx > Len(m_node_execs)
  /\ pc' = "idle"
  /\ UNCHANGED <<policy, parents, empty, m_node_execs, m_count, value, idx, nc, tasks,
                 status, execCount, run>>
  /\ UNCHANGED <<svars, vvars, nvars, zvars>>

(***************************************************************************)
(* DAGExec<omp_task_atomic_graph>: traverse(node) is two steps of the      *)
(* calling thread: the atomic capture `node_count = ++node->m_count`, then *)
(* the test against m_parent_count, the reset of m_count and the task.     *)
(***************************************************************************)
NewTask(n) == [node |-> n, pc |-> "start", idx |-> 1, nc |-> 0]

\* a traverse that claims the node on any increment
TraverseClaims_AnyIncrement(n, node_count) == node_count >= 1

\* `node_count == node->m_parent_count`
TraverseClaims(n, node_count) == node_count = m_parent_count(n)

\* a traverse that leaves the counter where the last parent put it
TraverseReset_Keep(n) == m_count

\* `node->m_count = 0` of the claiming thread
TraverseReset(n) == [m_count EXCEPT ![n] = 0]

\* the statements of traverse after the atomic capture
TraverseCheck(n, node_count) ==
  IF TraverseClaims(n, node_count)
    THEN /\ m_count' = TraverseReset(n)
         /\ tasks' = Append(tasks, NewTask(n))
    ELSE /\ UNCHANGED <<m_count, tasks>>

AtomicMainInc ==
  /\ policy = "atomic"
  /\ pc = "body"
  /\ idx <= Len(dag_children)
  /\ m_count' = [m_count EXCEPT ![dag_children[idx]] = @ + 1]
  /\ nc' = m_count'[dag_children[idx]]
  /\ pc' = "check"
  /\ UNCHANGED <<policy, parents, empty, m_node_execs, value, idx, tasks, status,
                 execCount, run>>
  /\ UNCHANGED <<svars, vvars, nvars, zvars>>

AtomicMainCheck ==
  /\ policy = "atomic"
  /\ pc = "check"
  /\ TraverseCheck(dag_children[idx], nc)
  /\ pc' = "body"
  /\ idx' = idx + 1
  /\ UNCHANGED <<policy, parents, empty, m_node_execs, value, nc, status, execCount, run>>
  /\ UNCHANGED <<svars, vvars, nvars, zvars>>

\* the body of the task: node->exec(), then traverse of every child
AtomicTaskExecBegin(t) ==
  /\ policy = "atomic"
  /\ tasks[t].pc = "start"
  /\ NodeExecBegin(tasks[t].node)
  /\ tasks' = [tasks EXCEPT ![t].pc = "exec"]
  /\ UNCHANGED <<policy, parents, empty, m_node_execs, m_count, value, pc, idx, nc, run>>
  /\ UNCHANGED <<svars, vvars, nvars, zvars>>

AtomicTaskExecEnd(t) ==
  /\ policy = "atomic"
  /\ tasks[t].pc = "exec"
  /\ NodeExecEnd(tasks[t].node)
  /\ tasks' = [tasks EXCEPT ![t].pc =
                 IF Len(m_children(tasks[t].node)) = 0 THEN "done" ELSE "children"]
  /\ UNCHANGED <<policy, parents, empty, m_node_execs, m_count, pc, idx, nc, execCount, run>>
  /\ UNCHANGED <<svars, vvars, nvars, zvars>>

\* a task that increments its child's counter before its own exec has returned
AtomicTaskInc_BeforeExecReturns(t) ==
  /\ policy = "atomic"
  /\ tasks[t].pc \in {"exec", "children"}
  /\ Len(m_children(tasks[t].node)) > 0
  /\ LET child == m_children(tasks[t].node)[tasks[t].idx] IN
       /\ m_count' = [m_count EXCEPT ![child] = @ + 1]
       /\ tasks' = [tasks EXCEPT ![t].pc = "check", ![t].nc = m_count'[child]]
  /\ UNCHANGED <<policy, parents, empty, m_node_execs, value, pc, idx, nc, status,
                 execCount, run>>
  /\ UNCHANGED <<svars, vvars, nvars, zvars>>

AtomicTaskInc(t) ==
  /\ policy = "atomic"
  /\ tasks[t].pc = "children"
  /\ LET child == m_children(tasks[t].node)[tasks[t].idx] IN
       /\ m_count' = [m_count EXCEPT ![child] = @ + 1]
       /\ tasks' = [tasks EXCEPT ![t].pc = "check", ![t].nc = m_count'[child]]
  /\ UNCHANGED <<policy, parents, empty, m_node_execs, value, pc, idx, nc, status,
                 execCount, run>>
  /\ UNCHANGED <<svars, vvars, nvars, zvars>>

AtomicTaskCheck(t) ==
  /\ policy = "atomic"
  /\ tasks[t].pc = "check"
  /\ LET n     == tasks[t].node
         child == m_children(n)[tasks[t].idx]
         after == [tasks EXCEPT ![t].idx = @ + 1,
                                ![t].pc = IF tasks[t].idx + 1 > Len(m_children(n))
                                            THEN "done" ELSE "children"]
     IN IF TraverseClaims(child, tasks[t].nc)
          THEN /\ m_count' = TraverseReset(child)
               /\ tasks' = Append(after, NewTask(child))
          ELSE /\ tasks' = after
               /\ UNCHANGED m_count
  /\ UNCHANGED <<policy, parents, empty, m_node_execs, value, pc, idx, nc, status,
                 execCount, run>>
  /\ UNCHANGED <<svars, vvars, nvars, zvars>>

(***************************************************************************)
(* DAGExec<omp_task_depend_graph>: forward_traverse generates one task per *)
(* node with depend(in: node) and depend(out: every child).  A task may    *)
(* start once every sibling task generated before it that names one of its *)
(* locations in a conflicting way has completed.                           *)
(***************************************************************************)
DependIn(n) == {n}

DependOut(n) == Children(n)

\* a task without its depend(in: node) clause
DependsOn_NoIn(m, n) ==
  DependOut(n) \cap (DependIn(m) \cup DependOut(m)) # {}

\* the task of n, generated after the task of m, is a dependent task of it
DependsOn(m, n) ==
  \/ DependIn(n) \cap DependOut(m) # {}
  \/ DependOut(n) \cap (DependIn(m) \cup DependOut(m)) # {}

\* tasks generated without any depend clause
DependReady_NoClauses(t) == TRUE

DependReady(t) ==
  \A u \in 1..(t - 1) :
    DependsOn(tasks[u].node, tasks[t].node) => tasks[u].pc = "done"

DependCreate ==
  /\ policy = "depend"
  /\ pc = "body"
  /\ idx <= Len(m_node_execs)
  /\ tasks' = Append(tasks, NewTask(m_node_execs[idx]))
  /\ idx' = idx + 1
  /\ UNCHANGED <<policy, parents, empty, m_node_execs, m_count, value, pc, nc, status,
                 execCount, run>>
  /\ UNCHANGED <<svars, vvars, nvars, zvars>>

DependTaskBegin(t) ==
  /\ policy = "depend"
  /\ tasks[t].pc = "start"
  /\ DependReady(t)
  /\ NodeExecBegin(tasks[t].node)
  /\ tasks' = [tasks EXCEPT ![t].pc = "exec"]
  /\ UNCHANGED <<policy, parents, empty, m_node_execs, m_count, value, pc, idx, nc, run>>
  /\ UNCHANGED <<svars, vvars, nvars, zvars>>

DependTaskEnd(t) ==
  /\ policy = "depend"
  /\ tasks[t].pc = "exec"
  /\ NodeExecEnd(tasks[t].node)
  /\ tasks' = [tasks EXCEPT ![t].pc = "done"]
  /\ UNCHANGED <<policy, parents, empty, m_node_execs, m_count, pc, idx, nc, execCount, run>>
  /\ UNCHANGED <<svars, vvars, nvars, zvars>>

(***************************************************************************)
(* End of the parallel region: the implicit barrier completes every task   *)
(* generated in the region before exec returns.                            *)
(***************************************************************************)
SingleDone ==
  /\ pc = "body"
  /\ \/ policy = "atomic" /\ idx > Len(dag_children)
     \/ policy = "depend" /\ idx > Len(m_node_execs)

\* a region whose end does not wait for the tasks (no barrier)
AllTasksDone_NoBarrier == TRUE

AllTasksDone == \A t \in 1..Len(tasks) : tasks[t].pc = "done"

ParallelReturn ==
  /\ SingleDone
  /\ AllTasksDone
  /\ pc' = "idle"
  /\ tasks' = <<>>
  /\ UNCHANGED <<policy, parents, empty, m_node_execs, m_count, value, idx, nc, status,
                 execCount, run>>
  /\ UNCHANGED <<svars, vvars, nvars, zvars>>

GraphNext ==
  \/ ExecStart
  \/ LoopNodeBegin
  \/ LoopNodeEnd
  \/ LoopReturn
  \/ AtomicMainInc
  \/ AtomicMainCheck
  \/ \E t \in 1..Len(tasks) : AtomicTaskExecBegin(t)
  \/ \E t \in 1..Len(tasks) : AtomicTaskExecEnd(t)
  \/ \E t \in 1..Len(tasks) : AtomicTaskInc(t)
  \/ \E t \in 1..Len(tasks) : AtomicTaskCheck(t)
  \/ DependCreate
  \/ \E t \in 1..Len(tasks) : DependTaskBegin(t)
  \/ \E t \in 1..Len(tasks) : DependTaskEnd(t)
  \/ ParallelReturn

\* exec returns in finitely many steps once called: the calling thread keeps
\* running and the OpenMP runtime runs every generated task before the barrier
\* of the parallel region completes.
GraphStep ==
  \/ LoopNodeBegin
  \/ LoopNodeEnd
  \/ LoopReturn
  \/ AtomicMainInc
  \/ AtomicMainCheck
  \/ \E t \in 1..Len(tasks) : AtomicTaskExecBegin(t)
  \/ \E t \in 1..Len(tasks) : AtomicTaskExecEnd(t)
  \/ \E t \in 1..Len(tasks) : AtomicTaskInc(t)
  \/ \E t \in 1..Len(tasks) : AtomicTaskCheck(t)
  \/ DependCreate
  \/ \E t \in 1..Len(tasks) : DependTaskBegin(t)
  \/ \E t \in 1..Len(tasks) : DependTaskEnd(t)
  \/ ParallelReturn

(***************************************************************************)
(* Properties of the graph executors.                                      *)
(***************************************************************************)
Started(n) == status[n] \in {"running", "done"}

AllNodesDone == \A n \in Nodes : status[n] = "done"

ExecReturned == pc = "idle" /\ run >= 1

\* node_data_check of the MixedNodes test: the nodes processed one at a time
\* in the order of their ids, which is a topological order.
RECURSIVE node_data_check(_)
node_data_check(n) ==
  IF n \in empty THEN 1
  ELSE 1 + SumOver([p \in Nodes |-> IF p \in parents[n] THEN node_data_check(p) ELSE 0],
                   parents[n])

\* C1: under every graph policy, for every edge P -> C, node C's exec never
\* starts before node P's exec has completed.
C1_ChildStartsAfterParents ==
  \A c \in Nodes : \A p \in parents[c] : Started(c) => status[p] = "done"

\* C1 witness: with edges 1 -> 3 and 2 -> 3 under the atomic-counter policy,
\* node 3 is running.
C1_Witness ==
  /\ policy = "atomic"
  /\ parents[3] = {1, 2}
  /\ status[3] = "running"

\* C2: in one graph execution every node's exec is invoked exactly once under
\* the sequential and the atomic-counter executor: never twice at any moment,
\* and exactly once when exec has returned.
C2_ExactlyOnce ==
  policy \in {"loop", "atomic"} =>
    /\ \A n \in Nodes : execCount[n] <= 1
    /\ ExecReturned => \A n \in Nodes : execCount[n] = 1

\* C2 witness: an atomic-counter execution has returned for a graph in which
\* node 3 has the two parents 1 and 2, whose completions race.
C2_Witness ==
  /\ policy = "atomic"
  /\ parents[3] = {1, 2}
  /\ ExecReturned
  /\ \A n \in Nodes : execCount[n] = 1

\* C8: after the first graph execution has returned, every node's value is
\* the value obtained by processing the nodes one at a time in a topological
\* order, under every policy and interleaving.
C8_ValuesMatchSequential ==
  (pc = "idle" /\ run = 1) => \A n \in Nodes : value[n] = node_data_check(n)

\* C8 witness: a parallel execution has returned and a node with two
\* non-trivial parents holds the sum.
C8_Witness ==
  /\ policy \in {"atomic", "depend"}
  /\ pc = "idle" /\ run = 1
  /\ empty = {}
  /\ parents[2] = {1}
  /\ parents[3] = {1, 2}
  /\ value[3] = 4

\* C9: once a graph execution starts, under fair scheduling every node
\* eventually executes and completes, and exec returns only after all nodes
\* have completed.
C9_ExecutionCompletes ==
  /\ (pc # "idle") ~> (pc = "idle" /\ AllNodesDone)
  /\ [](ExecReturned => AllNodesDone)

\* C9 witness: a task-parallel execution has returned with all nodes done.
C9_Witness ==
  /\ policy \in {"atomic", "depend"}
  /\ ExecReturned
  /\ AllNodesDone
  /\ parents[3] = {1, 2}

\* C10: an execution after the first again runs every node exactly once and
\* only after its predecessors, and every trigger counter m_count is 0
\* whenever no execution is in progress.
C10_ReExecution ==
  /\ pc = "idle" => \A n \in Nodes : m_count[n] = 0
  /\ run >= 2 =>
       /\ \A n \in Nodes : execCount[n] <= 1
       /\ \A c \in Nodes : \A p \in parents[c] : Started(c) => status[p] = "done"
       /\ pc = "idle" => \A n \in Nodes : execCount[n] = 1

\* C10 witness: the second atomic-counter execution of a graph with a
\* two-parent node has returned.
C10_Witness ==
  /\ policy = "atomic"
  /\ run = 2
  /\ pc = "idle"
  /\ parents[3] = {1, 2}
  /\ AllNodesDone

\* a dependency path from m to n
RECURSIVE HasPath(_, _)
HasPath(m, n) == \E p \in parents[n] : p = m \/ HasPath(m, p)

Unordered(m, n) == m # n /\ ~HasPath(m, n) /\ ~HasPath(n, m)

\* the task of node n has been generated and has not started
TaskWaiting(n) == \E t \in 1..Len(tasks) : tasks[t].node = n /\ tasks[t].pc = "start"

\* the task of node n is free to start now
TaskCanStart(n) ==
  \E t \in 1..Len(tasks) :
    /\ tasks[t].node = n
    /\ ENABLED (AtomicTaskExecBegin(t) \/ DependTaskBegin(t))

\* C11: under the two task-parallel policies the executor does not order two
\* nodes that no dependency path connects: while a node m is pending or
\* running, the generated task of a node n unordered with m is never held
\* back once all parents of n are done, so the two can run concurrently and
\* in either order.
C11_UnorderedNodesNotOrdered ==
  policy \in {"atomic", "depend"} =>
    \A m, n \in Nodes :
      (/\ Unordered(m, n)
       /\ status[m] # "done"
       /\ TaskWaiting(n)
       /\ \A p \in parents[n] : status[p] = "done") => TaskCanStart(n)

\* two unordered nodes are running at the same time under the atomic-counter
\* policy
C11_AtomicConcurrent ==
  /\ policy = "atomic"
  /\ \E m, n \in Nodes : Unordered(m, n) /\ status[m] = "running" /\ status[n] = "running"

\* the position of c in the sequence ch (0 if it is not in it)
PositionIn(ch, c) ==
  IF \E k \in 1..Len(ch) : ch[k] = c THEN CHOOSE k \in 1..Len(ch) : ch[k] = c ELSE 0

\* task t has made its traverse(c) increment of m_count
TaskPassed(t, c) ==
  LET k == PositionIn(m_children(tasks[t].node), c) IN
  /\ k > 0
  /\ \/ tasks[t].idx > k
     \/ tasks[t].idx = k /\ tasks[t].pc = "check"

\* the thread of the single region has made its traverse(c) increment
MainPassed(c) ==
  LET k == PositionIn(dag_children, c) IN
  /\ k > 0
  /\ \/ idx > k
     \/ idx = k /\ pc = "check"

\* the increments that c's trigger counter has received in this execution
Increments(c) ==
  Cardinality({t \in 1..Len(tasks) : TaskPassed(t, c)})
    + (IF MainPassed(c) THEN 1 ELSE 0)

Dispatched(c) == \E t \in 1..Len(tasks) : tasks[t].node = c

\* the counters of a state: each counts the increments of its node until the
\* node is dispatched, never more than the in-degree
CountersConsistent ==
  \A c \in Nodes :
    /\ m_count[c] <= m_parent_count(c)
    /\ pc # "idle" =>
         /\ Increments(c) <= m_parent_count(c)
         /\ m_count[c] = IF Dispatched(c) THEN 0 ELSE Increments(c)
         /\ Dispatched(c) => Increments(c) = m_parent_count(c)

\* C27: in the atomic-counter executor a node is dispatched exactly when its
\* trigger counter reaches its in-degree: each predecessor increments the
\* successor's m_count exactly once, and only after its own exec has
\* returned; the node's task is created by the one increment that makes
\* m_count equal to m_parent_count; m_count never exceeds m_parent_count.
C27_DispatchAtInDegree ==
  [][policy = "atomic" =>
       /\ CountersConsistent'
       /\ \A c \in Nodes :
            /\ m_count'[c] > m_count[c] =>
                 /\ m_count'[c] = m_count[c] + 1
                 /\ ~Dispatched(c)
                 /\ \/ c \in Roots /\ pc = "body" /\ pc' = "check" /\ nc' = m_count'[c]
                    \/ \E t \in 1..Len(tasks) :
                         /\ tasks[t].node \in parents[c]
                         /\ status[tasks[t].node] = "done"
                         /\ ~TaskPassed(t, c)
                         /\ TaskPassed(t, c)'
                         /\ tasks'[t].nc = m_count'[c]
            /\ (~Dispatched(c) /\ Dispatched(c)') =>
                 /\ m_count[c] = m_parent_count(c)
                 /\ m_count'[c] = 0
                 /\ Cardinality({t \in 1..Len(tasks') : tasks'[t].node = c}) = 1
                 /\ \/ pc = "check" /\ nc = m_parent_count(c) /\ dag_children[idx] = c
                    \/ \E t \in 1..Len(tasks) :
                         /\ tasks[t].pc = "check"
                         /\ tasks[t].nc = m_parent_count(c)
                         /\ m_children(tasks[t].node)[tasks[t].idx] = c
                         /\ tasks'[t].pc # "check"
            /\ (m_count[c] = m_parent_count(c) /\ m_count'[c] # m_count[c]) =>
                 Dispatched(c)'
    ]_vars

\* C27 witness: node 3 with the parents 1 and 2 has been dispatched by the
\* second of their increments and is running; its counter is back to 0.
C27_Witness ==
  /\ policy = "atomic"
  /\ parents[3] = {1, 2}
  /\ Increments(3) = 2
  /\ Dispatched(3)
  /\ status[3] = "running"
  /\ m_count[3] = 0

\* the nodes whose exec has returned in the current execution
DoneNodes == {n \in Nodes : status[n] = "done"}

\* C28: the sequential (loop_graph) executor runs the nodes one at a time in
\* a topological order computed once, when the DAGExec is constructed: every
\* exec call runs the nodes in that same order, and gr.wait(), the first
\* statement of exec, comes before the first node runs.
C28_LoopRunsPrecomputedOrder ==
  [][policy = "loop" =>
       /\ m_node_execs' = m_node_execs
       /\ Range(m_node_execs) = Nodes /\ Len(m_node_execs) = NumNodes
       /\ IsTopological(m_node_execs)
       /\ Cardinality({n \in Nodes : status'[n] = "running"}) <= 1
       /\ \A n \in Nodes :
            (status[n] # "running" /\ status'[n] = "running") =>
              LET k == Cardinality(DoneNodes) + 1 IN
              /\ pc = "body" /\ run >= 1
              /\ n = m_node_execs[k]
              /\ DoneNodes = {m_node_execs[j] : j \in 1..(k - 1)}
              /\ \A m \in Nodes \ DoneNodes : status[m] = "pending"
       /\ (pc = "idle" /\ pc' # "idle") =>
            /\ run' = run + 1
            /\ \A n \in Nodes : status'[n] = "pending"
       /\ (pc # "idle" /\ pc' = "idle") => DoneNodes = Nodes
    ]_vars

\* C28 witness: in the second execution of a graph whose precomputed order
\* is 2, 1, 3 node 1 is running after node 2 and before node 3.
C28_Witness ==
  /\ policy = "loop"
  /\ m_node_execs = <<2, 1, 3>>
  /\ run = 2
  /\ status = [n \in Nodes |-> CASE n = 2 -> "done" [] n = 1 -> "running" [] OTHER -> "pending"]

(***************************************************************************)
(* Bounds of the storage model.                                            *)
(***************************************************************************)
MaxRecords == 3
MaxRecSize == 3
MaxReserve == 4
MaxLoops == 3
RangeLen == 2
MaxRuns == 2
MaxMoves == 1

\* size_t arithmetic wraps; every size of the model is far below the modulus
SizeModulus == 2^30

Holders == 1..MaxRecSize

Segments == {<<0, RangeLen>>, <<1, RangeLen>>}

RunArgs == {"x0", "x1"}

(***************************************************************************)
(* The allocator: allocate returns a block that is not live (here the      *)
(* lowest such address; 0 is nullptr), deallocate ends a block's life.     *)
(***************************************************************************)
NewAllocator == [live |-> {}]

FreshBlock(a) == CHOOSE b \in 1..(Cardinality(a.live) + 1) : b \notin a.live

Allocate(a) ==
  [ptr |-> FreshBlock(a), aloc |-> [live |-> a.live \cup {FreshBlock(a)}]]

Deallocate(a, ptr) == [a EXCEPT !.live = @ \ {ptr}]

(***************************************************************************)
(* SimpleVector<T>: m_begin (0 is nullptr), the elements m_begin..m_end    *)
(* and the capacity m_cap - m_begin.                                       *)
(***************************************************************************)
NewSimpleVector == [m_begin |-> 0, elems |-> <<>>, cap |-> 0]

SV_size(v) == Len(v.elems)

\* The memory events of an operation, in program order:
\*   <<"allocate", p, n>>        allocate returned block p of n units
\*   <<"move_construct", p, i>>  element or record i was move-constructed in block p
\*   <<"destroy", p, i>>         element or record i of block p was destroyed
\*   <<"deallocate", p, 0>>      deallocate(p) was called
\* the relocation loop of reserve: new(&new_begin[i]) T(move(m_begin[i])), m_begin[i].~T()
SV_relocate(old, new, n) ==
  [k \in 1..(2 * n) |-> IF k % 2 = 1 THEN <<"move_construct", new, (k + 1) \div 2>>
                                     ELSE <<"destroy", old, k \div 2>>]

\* reserve(count): a new block of `count` elements when count > size()
SV_reserve(v, a, count) ==
  IF count > SV_size(v)
    THEN LET al == Allocate(a) IN
         [vec  |-> [m_begin |-> al.ptr,
                    elems   |-> [i \in 1..SV_size(v) |-> v.elems[i]],
                    cap     |-> count],
          aloc |-> Deallocate(al.aloc, v.m_begin),
          ev   |-> <<<<"allocate", al.ptr, count>>>>
                   \o SV_relocate(v.m_begin, al.ptr, SV_size(v))
                   \o <<<<"deallocate", v.m_begin, 0>>>>]
    ELSE [vec |-> v, aloc |-> a, ev |-> <<>>]

\* emplace_back(x)
SV_emplace_back(v, a, x) ==
  LET r == IF SV_size(v) = v.cap
             THEN SV_reserve(v, a, IF v.cap = 0 THEN 1 ELSE 2 * SV_size(v))
             ELSE [vec |-> v, aloc |-> a, ev |-> <<>>]
  IN [vec  |-> [r.vec EXCEPT !.elems = Append(@, x)],
      aloc |-> r.aloc,
      ev   |-> r.ev]

\* a pop_back that hands out the element before the last one it removes
SV_pop_back_Stale(v) ==
  [vec  |-> [v EXCEPT !.elems = SubSeq(@, 1, Len(@) - 1)],
   last |-> v.elems[IF Len(v.elems) > 1 THEN Len(v.elems) - 1 ELSE 1],
   ev   |-> <<<<"destroy", v.m_begin, Len(v.elems)>>>>]

\* pop_back(): --m_end, the last element moved out and destroyed
SV_pop_back(v) ==
  [vec  |-> [v EXCEPT !.elems = SubSeq(@, 1, Len(@) - 1)],
   last |-> v.elems[Len(v.elems)],
   ev   |-> <<<<"destroy", v.m_begin, Len(v.elems)>>>>]

\* clear(): every element destroyed, the block deallocated, the pointers nulled
SV_clear(v, a) ==
  [vec  |-> [m_begin |-> 0, elems |-> <<>>, cap |-> 0],
   aloc |-> Deallocate(a, v.m_begin),
   ev   |-> [i \in 1..SV_size(v) |-> <<"destroy", v.m_begin, i>>]
            \o <<<<"deallocate", v.m_begin, 0>>>>]

\* SimpleVector(SimpleVector&& o): the new vector and what is left in o
SV_move_construct(o) ==
  [dst |-> [m_begin |-> o.m_begin, elems |-> o.elems, cap |-> o.cap],
   src |-> [m_begin |-> 0, elems |-> <<>>, cap |-> 0]]

\* operator=(SimpleVector&& o): the pointers of this are overwritten by o's
SV_move_assign(this, o) ==
  [dst |-> [m_begin |-> o.m_begin, elems |-> o.elems, cap |-> o.cap],
   src |-> [m_begin |-> 0, elems |-> <<>>, cap |-> 0]]

(***************************************************************************)
(* Vtable and WorkStruct.  A holder type is named by the size of its       *)
(* WorkStruct; its vtable holds the three functions of that type.          *)
(***************************************************************************)
Vtable(ty) ==
  [move_construct |-> <<"move_construct", ty>>,
   call           |-> <<"call", ty>>,
   destroy        |-> <<"destroy", ty>>,
   size           |-> ty]

SizeOf(ty) == ty

\* bytes that hold no record: never written, or overwritten by another owner
Garbage ==
  [vtable |-> 0, call_function_ptr |-> <<"garbage", 0>>,
   obj |-> [holder |-> 0, id |-> 0, segment |-> <<0, 0>>]]

\* HoldForall(segment, body) of holder type ty; id names the captured body
Holder(ty, id, seg) == [holder |-> ty, id |-> id, segment |-> seg]

\* a construct that caches the call function of the smallest holder type
Construct_FirstTypeCall(ty, obj) ==
  [vtable |-> ty, call_function_ptr |-> Vtable(1).call, obj |-> obj]

\* WorkStruct::construct<holder>(ptr, vtable, ctor_args...)
Construct(ty, obj) ==
  [vtable |-> ty, call_function_ptr |-> Vtable(ty).call, obj |-> obj]

\* a relocation that forgets the cached call pointer
MoveDestroy_NoCallPtr(src) ==
  [vtable |-> src.vtable, call_function_ptr |-> Garbage.call_function_ptr,
   obj |-> src.obj]

\* WorkStruct::move_destroy(dst, src): the value left in dst
MoveDestroy(src) ==
  [vtable |-> src.vtable, call_function_ptr |-> src.call_function_ptr,
   obj |-> src.obj]

(***************************************************************************)
(* The three WorkStorage variants, as one record.  m_array_end and         *)
(* m_array_cap are kept as distances from m_array_begin (0 is nullptr);    *)
(* arena maps a byte offset of the current arena to the record that starts *)
(* there; heap maps a record block of array_of_pointers to its record.     *)
(***************************************************************************)
NewStorage ==
  [m_vec          |-> NewSimpleVector,
   m_offsets      |-> NewSimpleVector,
   m_storage_size |-> 0,
   heap           |-> <<>>,
   m_stride       |-> 1,
   m_array_begin  |-> 0,
   m_array_end    |-> 0,
   m_array_cap    |-> 0,
   arena          |-> <<>>,
   aloc           |-> NewAllocator,
   n_move_destroy |-> 0,
   n_moves        |-> 0,
   events         |-> <<>>]

ArenaAt(s, off) == IF off \in DOMAIN s.arena THEN s.arena[off] ELSE Garbage

storage_capacity(s) == s.m_array_cap

storage_unused(s) == (s.m_array_cap - s.m_array_end) % SizeModulus

storage_size(s) ==
  IF variant = "array_of_pointers" THEN s.m_storage_size ELSE s.m_array_end

size(s) ==
  CASE variant = "array_of_pointers" -> SV_size(s.m_vec)
    [] variant = "ragged"            -> SV_size(s.m_offsets)
    [] variant = "constant_stride"   -> s.m_array_end \div s.m_stride

\* the record begin()[i - 1] refers to
RecordAt(s, i) ==
  CASE variant = "array_of_pointers" ->
         IF i \in 1..SV_size(s.m_vec) THEN s.heap[s.m_vec.elems[i]] ELSE Garbage
    [] variant = "ragged" ->
         IF i \in 1..SV_size(s.m_offsets) THEN ArenaAt(s, s.m_offsets.elems[i])
         ELSE Garbage
    [] variant = "constant_stride" -> ArenaAt(s, (i - 1) * s.m_stride)

\* the records visited by iterating begin()..end()
Iterate(s) == [i \in 1..size(s) |-> RecordAt(s, i)]

Max(a, b) == IF a >= b THEN a ELSE b

(***************************************************************************)
(* WorkStorage<array_of_pointers>.                                         *)
(***************************************************************************)
\* create_value: one block per record, constructed in place
\* create_value moving the record to a second block once it is constructed
AOP_create_value_Relocating(s, ty, obj) ==
  LET al  == Allocate(s.aloc)
      al2 == Allocate(al.aloc) IN
  [s   |-> [s EXCEPT !.aloc = Deallocate(al2.aloc, al.ptr),
                     !.m_storage_size = @ + SizeOf(ty),
                     !.n_move_destroy = @ + 1,
                     !.heap = (al2.ptr :> MoveDestroy(Construct(ty, obj))) @@ @,
                     !.events = @ \o <<<<"allocate", al.ptr, SizeOf(ty)>>,
                                       <<"construct", al.ptr, 0>>,
                                       <<"allocate", al2.ptr, SizeOf(ty)>>,
                                       <<"move_construct", al2.ptr, 0>>,
                                       <<"destroy", al.ptr, 0>>,
                                       <<"deallocate", al.ptr, 0>>>>],
   ptr |-> al2.ptr]

AOP_create_value(s, ty, obj) ==
  LET al == Allocate(s.aloc) IN
  [s   |-> [s EXCEPT !.aloc = al.aloc,
                     !.m_storage_size = @ + SizeOf(ty),
                     !.heap = (al.ptr :> Construct(ty, obj)) @@ @,
                     !.events = @ \o <<<<"allocate", al.ptr, SizeOf(ty)>>,
                                       <<"construct", al.ptr, 0>>>>],
   ptr |-> al.ptr]

AOP_emplace(s, ty, obj) ==
  LET c == AOP_create_value(s, ty, obj)
      r == SV_emplace_back(c.s.m_vec, c.s.aloc, c.ptr)
  IN [c.s EXCEPT !.m_vec = r.vec, !.aloc = r.aloc, !.events = @ \o r.ev]

AOP_reserve(s, num_loops, loop_storage_size) ==
  LET r == SV_reserve(s.m_vec, s.aloc, num_loops)
  IN [s EXCEPT !.m_vec = r.vec, !.aloc = r.aloc, !.events = @ \o r.ev]

(***************************************************************************)
(* WorkStorage<ragged_array_of_objects>.                                   *)
(***************************************************************************)
\* the loop of array_reserve: move_destroy(new_value, old_value) for
\* i = 0 .. size()-1, record i at offset m_offsets.begin()[i] of both arenas
\* a relocation loop that runs from the last record to the first
RG_relocate_Descending(s, new) ==
  LET n == SV_size(s.m_offsets) IN
  [k \in 1..(2 * n) |->
     IF k % 2 = 1 THEN <<"move_construct", new, s.m_offsets.elems[n + 1 - (k + 1) \div 2]>>
                  ELSE <<"destroy", s.m_array_begin, s.m_offsets.elems[n + 1 - k \div 2]>>]

RG_relocate(s, new) ==
  [k \in 1..(2 * SV_size(s.m_offsets)) |->
     IF k % 2 = 1 THEN <<"move_construct", new, s.m_offsets.elems[(k + 1) \div 2]>>
                  ELSE <<"destroy", s.m_array_begin, s.m_offsets.elems[k \div 2]>>]

RG_array_reserve(s, loop_storage_size) ==
  IF loop_storage_size > storage_capacity(s)
    THEN LET al   == Allocate(s.aloc)
             offs == {s.m_offsets.elems[i] : i \in 1..SV_size(s.m_offsets)}
         IN [s EXCEPT !.arena = [off \in offs |-> MoveDestroy(ArenaAt(s, off))],
                      !.n_move_destroy = @ + SV_size(s.m_offsets),
                      !.aloc = Deallocate(al.aloc, s.m_array_begin),
                      !.m_array_begin = al.ptr,
                      !.m_array_end = storage_size(s),
                      !.m_array_cap = loop_storage_size,
                      !.events = @ \o <<<<"allocate", al.ptr, loop_storage_size>>>>
                                   \o RG_relocate(s, al.ptr)
                                   \o <<<<"deallocate", s.m_array_begin, 0>>>>]
    ELSE s

\* create_value leaving a byte of padding after the record
RG_create_value_Padded(s, ty, obj) ==
  LET value_size == SizeOf(ty)
      s1 == IF value_size > storage_unused(s)
              THEN RG_array_reserve(s, Max(storage_size(s) + value_size,
                                           2 * storage_capacity(s)))
              ELSE s
      value_offset == storage_size(s1)
  IN [s      |-> [s1 EXCEPT !.m_array_end = @ + value_size + 1,
                            !.arena = (value_offset :> Construct(ty, obj)) @@ @,
                            !.events = @ \o <<<<"construct", s1.m_array_begin,
                                                value_offset>>>>],
      offset |-> value_offset]

RG_create_value(s, ty, obj) ==
  LET value_size == SizeOf(ty)
      s1 == IF value_size > storage_unused(s)
              THEN RG_array_reserve(s, Max(storage_size(s) + value_size,
                                           2 * storage_capacity(s)))
              ELSE s
      value_offset == storage_size(s1)
  IN [s      |-> [s1 EXCEPT !.m_array_end = @ + value_size,
                            !.arena = (value_offset :> Construct(ty, obj)) @@ @,
                            !.events = @ \o <<<<"construct", s1.m_array_begin,
                                                value_offset>>>>],
      offset |-> value_offset]

\* an emplace that records where the new record ends instead of where it
\* starts
RG_emplace_EndOffset(s, ty, obj) ==
  LET c == RG_create_value(s, ty, obj)
      r == SV_emplace_back(c.s.m_offsets, c.s.aloc, c.offset + SizeOf(ty))
  IN [c.s EXCEPT !.m_offsets = r.vec, !.aloc = r.aloc, !.events = @ \o r.ev]

RG_emplace(s, ty, obj) ==
  LET c == RG_create_value(s, ty, obj)
      r == SV_emplace_back(c.s.m_offsets, c.s.aloc, c.offset)
  IN [c.s EXCEPT !.m_offsets = r.vec, !.aloc = r.aloc, !.events = @ \o r.ev]

RG_reserve(s, num_loops, loop_storage_size) ==
  LET r == SV_reserve(s.m_offsets, s.aloc, num_loops)
  IN RG_array_reserve([s EXCEPT !.m_offsets = r.vec, !.aloc = r.aloc,
                                !.events = @ \o r.ev],
                      loop_storage_size)

(***************************************************************************)
(* WorkStorage<constant_stride_array_of_objects>.                          *)
(***************************************************************************)
\* the loop of array_reserve: record i moves from i*m_stride to i*new_stride
\* a relocation loop that puts record i at offset i*m_stride of the new arena
CS_relocate_OldOffsets(s, new, new_stride) ==
  [k \in 1..(2 * size(s)) |->
     IF k % 2 = 1 THEN <<"move_construct", new, ((k + 1) \div 2 - 1) * s.m_stride>>
                  ELSE <<"destroy", s.m_array_begin, (k \div 2 - 1) * s.m_stride>>]

CS_relocate(s, new, new_stride) ==
  [k \in 1..(2 * size(s)) |->
     IF k % 2 = 1 THEN <<"move_construct", new, ((k + 1) \div 2 - 1) * new_stride>>
                  ELSE <<"destroy", s.m_array_begin, (k \div 2 - 1) * s.m_stride>>]

\* array_reserve keeping the old stride when it re-lays the arena out
CS_array_reserve_KeepStride(s, loop_storage_size, new_stride) ==
  IF loop_storage_size > storage_capacity(s) \/ new_stride > s.m_stride
    THEN LET al == Allocate(s.aloc)
             n  == size(s)
         IN [s EXCEPT !.arena = [off \in {i * new_stride : i \in 0..(n - 1)} |->
                                   MoveDestroy(ArenaAt(s, (off \div new_stride) * s.m_stride))],
                      !.n_move_destroy = @ + n,
                      !.aloc = Deallocate(al.aloc, s.m_array_begin),
                      !.m_array_begin = al.ptr,
                      !.m_array_end = n * new_stride,
                      !.m_array_cap = loop_storage_size,
                      !.events = @ \o <<<<"allocate", al.ptr, loop_storage_size>>>>
                                   \o CS_relocate(s, al.ptr, new_stride)
                                   \o <<<<"deallocate", s.m_array_begin, 0>>>>]
    ELSE s

CS_array_reserve(s, loop_storage_size, new_stride) ==
  IF loop_storage_size > storage_capacity(s) \/ new_stride > s.m_stride
    THEN LET al == Allocate(s.aloc)
             n  == size(s)
         IN [s EXCEPT !.arena = [off \in {i * new_stride : i \in 0..(n - 1)} |->
                                   MoveDestroy(ArenaAt(s, (off \div new_stride) * s.m_stride))],
                      !.n_move_destroy = @ + n,
                      !.aloc = Deallocate(al.aloc, s.m_array_begin),
                      !.m_stride = new_stride,
                      !.m_array_begin = al.ptr,
                      !.m_array_end = n * new_stride,
                      !.m_array_cap = loop_storage_size,
                      !.events = @ \o <<<<"allocate", al.ptr, loop_storage_size>>>>
                                   \o CS_relocate(s, al.ptr, new_stride)
                                   \o <<<<"deallocate", s.m_array_begin, 0>>>>]
    ELSE s

\* create_value growing the arena as soon as the record fills it exactly
CS_create_value_GrowWhenFull(s, ty, obj) ==
  LET value_size == SizeOf(ty)
      s1 == IF value_size >= storage_unused(s) /\ value_size <= s.m_stride
              THEN CS_array_reserve(s, Max(storage_size(s) + value_size,
                                           2 * storage_capacity(s)),
                                    s.m_stride)
              ELSE IF value_size > s.m_stride
                THEN CS_array_reserve(s, (size(s) + 1) * value_size, value_size)
                ELSE s
  IN [s1 EXCEPT !.m_array_end = @ + s1.m_stride,
                !.arena = (s1.m_array_end :> Construct(ty, obj)) @@ @,
                !.events = @ \o <<<<"construct", s1.m_array_begin, s1.m_array_end>>>>]

CS_create_value(s, ty, obj) ==
  LET value_size == SizeOf(ty)
      s1 == IF value_size > storage_unused(s) /\ value_size <= s.m_stride
              THEN CS_array_reserve(s, Max(storage_size(s) + value_size,
                                           2 * storage_capacity(s)),
                                    s.m_stride)
              ELSE IF value_size > s.m_stride
                THEN CS_array_reserve(s, (size(s) + 1) * value_size, value_size)
                ELSE s
  IN [s1 EXCEPT !.m_array_end = @ + s1.m_stride,
                !.arena = (s1.m_array_end :> Construct(ty, obj)) @@ @,
                !.events = @ \o <<<<"construct", s1.m_array_begin, s1.m_array_end>>>>]

CS_emplace(s, ty, obj) == CS_create_value(s, ty, obj)

CS_reserve(s, num_loops, loop_storage_size) ==
  CS_array_reserve(s, loop_storage_size, s.m_stride)

(***************************************************************************)
(* The operations of a storage, by variant; events holds the memory events *)
(* of the last operation.                                                  *)
(***************************************************************************)
emplace(s, ty, obj) ==
  LET s0 == [s EXCEPT !.events = <<>>] IN
  CASE variant = "array_of_pointers" -> AOP_emplace(s0, ty, obj)
    [] variant = "ragged"            -> RG_emplace(s0, ty, obj)
    [] variant = "constant_stride"   -> CS_emplace(s0, ty, obj)

reserve(s, num_loops, loop_storage_size) ==
  LET s0 == [s EXCEPT !.events = <<>>] IN
  CASE variant = "array_of_pointers" -> AOP_reserve(s0, num_loops, loop_storage_size)
    [] variant = "ragged"            -> RG_reserve(s0, num_loops, loop_storage_size)
    [] variant = "constant_stride"   -> CS_reserve(s0, num_loops, loop_storage_size)

(***************************************************************************)
(* An emplace during which the allocator signals failure.  The failure     *)
(* leaves the emplace at the call of allocate that failed: the statements  *)
(* before that call have run, those after it have not.                     *)
(***************************************************************************)
\* allocate signals failure: no block is obtained
AllocateFails(s) == [s EXCEPT !.events = @ \o <<<<"allocate_failed", 0, 0>>>>]

\* emplace_back has to grow the vector: m_end == m_cap
SV_emplace_back_grows(v) == SV_size(v) = v.cap

\* array_of_pointers: allocate fails in create_value before anything is
\* written, or in m_vec.emplace_back after create_value has returned
AOP_emplace_failures(s, ty, obj) ==
  {AllocateFails(s)}
    \cup (IF SV_emplace_back_grows(s.m_vec)
            THEN {AllocateFails(AOP_create_value(s, ty, obj).s)}
            ELSE {})

\* ragged: allocate fails in array_reserve at the start of create_value, or
\* in m_offsets.emplace_back after create_value has returned
RG_emplace_failures(s, ty, obj) ==
  (IF /\ SizeOf(ty) > storage_unused(s)
      /\ Max(storage_size(s) + SizeOf(ty), 2 * storage_capacity(s))
           > storage_capacity(s)
     THEN {AllocateFails(s)}
     ELSE {})
    \cup (IF SV_emplace_back_grows(s.m_offsets)
            THEN {AllocateFails(RG_create_value(s, ty, obj).s)}
            ELSE {})

\* constant_stride: allocate fails in the array_reserve of create_value
CS_emplace_failures(s, ty, obj) ==
  IF \/ /\ SizeOf(ty) > storage_unused(s)
        /\ SizeOf(ty) <= s.m_stride
        /\ Max(storage_size(s) + SizeOf(ty), 2 * storage_capacity(s))
             > storage_capacity(s)
     \/ SizeOf(ty) > s.m_stride
    THEN {AllocateFails(s)}
    ELSE {}

\* the storages a failed emplace can leave, one for each call of allocate
\* the emplace reaches
emplace_failures(s, ty, obj) ==
  LET s0 == [s EXCEPT !.events = <<>>] IN
  CASE variant = "array_of_pointers" -> AOP_emplace_failures(s0, ty, obj)
    [] variant = "ragged"            -> RG_emplace_failures(s0, ty, obj)
    [] variant = "constant_stride"   -> CS_emplace_failures(s0, ty, obj)

(***************************************************************************)
(* Moves and destruction of a storage.                                     *)
(***************************************************************************)
\* WorkStorage(WorkStorage&& o): the new storage and what is left in o.  The
\* records go with the pointers; constant-stride leaves o its stride.
WS_move_construct(o) ==
  [dst |-> [NewStorage EXCEPT
              !.m_vec = SV_move_construct(o.m_vec).dst,
              !.m_offsets = SV_move_construct(o.m_offsets).dst,
              !.m_storage_size = o.m_storage_size,
              !.heap = o.heap,
              !.m_stride = o.m_stride,
              !.m_array_begin = o.m_array_begin,
              !.m_array_end = o.m_array_end,
              !.m_array_cap = o.m_array_cap,
              !.arena = o.arena],
   src |-> [o EXCEPT
              !.m_vec = SV_move_construct(o.m_vec).src,
              !.m_offsets = SV_move_construct(o.m_offsets).src,
              !.m_storage_size = 0,
              !.heap = <<>>,
              !.m_array_begin = 0,
              !.m_array_end = 0,
              !.m_array_cap = 0,
              !.arena = <<>>,
              !.events = <<>>]]

\* operator=(WorkStorage&& o): every member of this is overwritten by o's
WS_move_assign(this, o) ==
  [dst |-> [this EXCEPT
              !.m_vec = SV_move_assign(this.m_vec, o.m_vec).dst,
              !.m_offsets = SV_move_assign(this.m_offsets, o.m_offsets).dst,
              !.m_storage_size = o.m_storage_size,
              !.heap = o.heap,
              !.m_stride = o.m_stride,
              !.m_array_begin = o.m_array_begin,
              !.m_array_end = o.m_array_end,
              !.m_array_cap = o.m_array_cap,
              !.arena = o.arena],
   src |-> WS_move_construct(o).src]

\* a destroy_value that releases the record's block before destroying the record
AOP_destroy_events_ReleaseFirst(s) ==
  LET n == SV_size(s.m_vec) IN
  [k \in 1..(3 * n) |->
     LET i == n - ((k - 1) \div 3) IN
     CASE (k - 1) % 3 = 0 -> <<"destroy", s.m_vec.m_begin, i>>
       [] (k - 1) % 3 = 1 -> <<"deallocate", s.m_vec.elems[i], 0>>
       [] (k - 1) % 3 = 2 -> <<"destroy", s.m_vec.elems[i], 0>>]
  \o <<<<"deallocate", s.m_vec.m_begin, 0>>>>

\* ~WorkStorage<array_of_pointers>: destroy_value(m_vec.pop_back()) from the
\* last record to the first, then ~SimpleVector of m_vec
AOP_destroy_events(s) ==
  LET n == SV_size(s.m_vec) IN
  [k \in 1..(3 * n) |->
     LET i == n - ((k - 1) \div 3) IN
     CASE (k - 1) % 3 = 0 -> <<"destroy", s.m_vec.m_begin, i>>
       [] (k - 1) % 3 = 1 -> <<"destroy", s.m_vec.elems[i], 0>>
       [] (k - 1) % 3 = 2 -> <<"deallocate", s.m_vec.elems[i], 0>>]
  \o <<<<"deallocate", s.m_vec.m_begin, 0>>>>

\* ~WorkStorage<ragged_array_of_objects>: destroy_value(m_offsets.pop_back())
\* from the last record to the first, the arena, then ~SimpleVector of m_offsets
RG_destroy_events(s) ==
  LET n == SV_size(s.m_offsets) IN
  [k \in 1..(2 * n) |->
     LET i == n - ((k - 1) \div 2) IN
     IF k % 2 = 1 THEN <<"destroy", s.m_offsets.m_begin, i>>
                  ELSE <<"destroy", s.m_array_begin, s.m_offsets.elems[i]>>]
  \o (IF s.m_array_begin # 0 THEN <<<<"deallocate", s.m_array_begin, 0>>>> ELSE <<>>)
  \o <<<<"deallocate", s.m_offsets.m_begin, 0>>>>

\* ~WorkStorage<constant_stride_array_of_objects>: destroy_value from the
\* last record to the first, then the arena
CS_destroy_events(s) ==
  LET n == size(s) IN
  [k \in 1..n |-> <<"destroy", s.m_array_begin, (n - k) * s.m_stride>>]
  \o (IF s.m_array_begin # 0 THEN <<<<"deallocate", s.m_array_begin, 0>>>> ELSE <<>>)

destroy_events(s) ==
  CASE variant = "array_of_pointers" -> AOP_destroy_events(s)
    [] variant = "ragged"            -> RG_destroy_events(s)
    [] variant = "constant_stride"   -> CS_destroy_events(s)

\* the blocks a sequence of events deallocates
Deallocated(ev) == {ev[k][2] : k \in {j \in 1..Len(ev) : ev[j][1] = "deallocate"}}

\* ~WorkStorage of s over allocator a: the events and the allocator afterwards
WS_destroy(s, a) ==
  [events |-> destroy_events(s),
   aloc   |-> [a EXCEPT !.live = @ \ Deallocated(destroy_events(s))]]

\* a record of the arena part of which lies past the end of the arena's block
OutOfBlock(s, off) ==
  /\ off \in DOMAIN s.arena
  /\ s.arena[off] # Garbage
  /\ off + SizeOf(s.arena[off].vtable) > s.m_array_cap

\* some record of the arena has been overwritten: what the program does with
\* it is undefined and is not followed further
Clobbered(s) == \E off \in DOMAIN s.arena : s.arena[off] = Garbage

StoreInit ==
  /\ variant \in {"array_of_pointers", "ragged", "constant_stride"}
  /\ st = NewStorage
  /\ other = <<>>
  /\ emplaced = <<>>
  /\ segment \in Segments
  /\ rpc = "build"
  /\ order = "ordered"
  /\ iter = 0
  /\ rargs = "x0"
  /\ held = <<>>
  /\ log = <<>>
  /\ counter = [i \in 0..(RangeLen - 1) |-> 0]
  /\ runs = 0

\* the number of records the second storage holds
OtherSize == IF other = <<>> THEN 0 ELSE size(other[1])

\* WorkRunner::enqueue(storage, seg, loop): storage.emplace<holder>(&s_vtable, seg, loop)
Enqueue(ty) ==
  /\ rpc = "build"
  /\ runs = 0
  /\ ~Clobbered(st)
  /\ Len(emplaced) + OtherSize < MaxRecords
  /\ LET obj == Holder(ty, Len(emplaced) + 1, segment) IN
       /\ st' = emplace(st, ty, obj)
       /\ emplaced' = Append(emplaced, Construct(ty, obj))
  /\ UNCHANGED <<variant, other, segment, rpc, order, iter, rargs, held, log, counter, runs>>
  /\ UNCHANGED <<gvars, vvars, nvars, zvars>>

\* WorkStorage::reserve(num_loops, loop_storage_size)
Reserve(num_loops, loop_storage_size) ==
  /\ rpc = "build"
  /\ runs = 0
  /\ ~Clobbered(st)
  /\ st' = reserve(st, num_loops, loop_storage_size)
  /\ UNCHANGED <<variant, other, emplaced, segment, rpc, order, iter, rargs, held, log, counter, runs>>
  /\ UNCHANGED <<gvars, vvars, nvars, zvars>>

\* The bytes of a record that lie outside the arena's block belong to someone
\* else, who may write them at any time.
HeapClobber(off) ==
  /\ ~Clobbered(st)
  /\ OutOfBlock(st, off)
  /\ st' = [st EXCEPT !.arena[off] = Garbage]
  /\ UNCHANGED <<variant, other, emplaced, segment, rpc, order, iter, rargs, held, log, counter, runs>>
  /\ UNCHANGED <<gvars, vvars, nvars, zvars>>

\* WorkRunner::enqueue whose storage.emplace fails in the allocator: the
\* failure reaches the caller, who has no record enqueued
EnqueueFails(ty) ==
  /\ rpc = "build"
  /\ runs = 0
  /\ ~Clobbered(st)
  /\ Len(emplaced) + OtherSize < MaxRecords
  /\ storage_size(st) < MaxRecords * MaxRecSize
  /\ \E f \in emplace_failures(st, ty, Holder(ty, Len(emplaced) + 1, segment)) :
       st' = f
  /\ UNCHANGED <<variant, other, emplaced, segment, rpc, order, iter, rargs, held, log, counter, runs>>
  /\ UNCHANGED <<gvars, vvars, nvars, zvars>>

\* WorkStorage other(std::move(st)); st now holds no record
MoveConstruct ==
  /\ rpc = "build"
  /\ runs = 0
  /\ ~Clobbered(st)
  /\ other = <<>>
  /\ st.n_moves < MaxMoves
  /\ LET r == WS_move_construct(st) IN
       /\ other' = <<r.dst>>
       /\ st' = [r.src EXCEPT !.n_moves = @ + 1]
  /\ emplaced' = <<>>
  /\ UNCHANGED <<variant, segment, rpc, order, iter, rargs, held, log, counter, runs>>
  /\ UNCHANGED <<gvars, vvars, nvars, zvars>>

\* other = std::move(st).  operator= ends without a return statement: the
\* call either comes back to the caller or the program goes astray there.
MoveAssign ==
  /\ rpc = "build"
  /\ runs = 0
  /\ ~Clobbered(st)
  /\ other # <<>>
  /\ st.n_moves < MaxMoves
  /\ \/ /\ LET r == WS_move_assign(other[1], st) IN
             /\ other' = <<r.dst>>
             /\ st' = [r.src EXCEPT !.n_moves = @ + 1]
        /\ emplaced' = <<>>
        /\ UNCHANGED rpc
     \/ /\ rpc' = "trapped"
        /\ UNCHANGED <<st, other, emplaced>>
  /\ UNCHANGED <<variant, segment, order, iter, rargs, held, log, counter, runs>>
  /\ UNCHANGED <<gvars, vvars, nvars, zvars>>

\* WorkStorage other(aloc): a second storage is constructed empty
ConstructOther ==
  /\ rpc = "build"
  /\ runs = 0
  /\ other = <<>>
  /\ other' = <<NewStorage>>
  /\ UNCHANGED <<variant, st, emplaced, segment, rpc, order, iter, rargs, held, log, counter, runs>>
  /\ UNCHANGED <<gvars, vvars, nvars, zvars>>

\* st = std::move(other), with the same two outcomes
MoveAssignBack ==
  /\ rpc = "build"
  /\ runs = 0
  /\ ~Clobbered(st)
  /\ other # <<>>
  /\ st.n_moves < MaxMoves
  /\ \/ /\ LET r == WS_move_assign(st, other[1]) IN
             /\ st' = [r.dst EXCEPT !.events = <<>>, !.n_moves = @ + 1]
             /\ other' = <<r.src>>
        /\ emplaced' = Iterate(other[1])
        /\ UNCHANGED rpc
     \/ /\ rpc' = "trapped"
        /\ UNCHANGED <<st, other, emplaced>>
  /\ UNCHANGED <<variant, segment, order, iter, rargs, held, log, counter, runs>>
  /\ UNCHANGED <<gvars, vvars, nvars, zvars>>

\* ~WorkStorage() of st
DestroyStorage ==
  /\ rpc = "build"
  /\ runs = 0
  /\ ~Clobbered(st)
  /\ LET d == WS_destroy(st, st.aloc) IN
       st' = [WS_move_construct(st).src EXCEPT !.aloc = d.aloc, !.events = d.events]
  /\ rpc' = "destroyed"
  /\ emplaced' = <<>>
  /\ UNCHANGED <<variant, other, segment, order, iter, rargs, held, log, counter, runs>>
  /\ UNCHANGED <<gvars, vvars, nvars, zvars>>

\* ~WorkStorage() of the other storage
DestroyOther ==
  /\ rpc \in {"build", "destroyed"}
  /\ runs = 0
  /\ other # <<>>
  /\ LET d == WS_destroy(other[1], st.aloc) IN
       st' = [st EXCEPT !.aloc = d.aloc, !.events = d.events]
  /\ other' = <<>>
  /\ UNCHANGED <<variant, emplaced, segment, rpc, order, iter, rargs, held, log, counter, runs>>
  /\ UNCHANGED <<gvars, vvars, nvars, zvars>>

(***************************************************************************)
(* WorkRunnerForallOrdered::run and WorkRunnerForallReverse::run.          *)
(***************************************************************************)
\* the iterator the loop starts from, as a distance from begin()
RunFirst(o, n) == IF o = "ordered" THEN 0 ELSE n

\* a loop that stops one record early
RunMore_StopsEarly(o, it, n) == IF o = "ordered" THEN it < n - 1 ELSE it > 1

\* `iter != end` of the ordered loop, `iter != begin` of the reverse loop
RunMore(o, it, n) == IF o = "ordered" THEN it # n ELSE it # 0

\* a reverse loop that calls *iter instead of *(iter-1)
RunCalled_NoAdjust(o, it) == it + 1

\* the record the loop body calls: *iter, or *(iter-1) in reverse
RunCalled(o, it) == IF o = "ordered" THEN it + 1 ELSE it

\* ++iter, or --iter in reverse
RunStep(o, it) == IF o = "ordered" THEN it + 1 ELSE it - 1

\* HoldForall::operator(): forall over m_segment of a body that adds 1 to its
\* element of the shared array
HoldForall(obj, array) ==
  [i \in DOMAIN array |->
     IF obj.segment[1] <= i /\ i < obj.segment[2] THEN array[i] + 1 ELSE array[i]]

RunStart(o, a) ==
  /\ rpc = "build"
  /\ ~Clobbered(st)
  /\ runs < MaxRuns
  /\ runs' = runs + 1
  /\ rpc' = "loop"
  /\ order' = o
  /\ rargs' = a
  /\ iter' = RunFirst(o, size(st))
  /\ held' = Iterate(st)
  /\ log' = <<>>
  /\ counter' = [i \in 0..(RangeLen - 1) |-> 0]
  /\ UNCHANGED <<variant, st, other, emplaced, segment>>
  /\ UNCHANGED <<gvars, vvars, nvars, zvars>>

\* value_type::call(*iter, args...) is entered
CallBegin ==
  /\ rpc = "loop"
  /\ ~Clobbered(st)
  /\ RunMore(order, iter, size(st))
  /\ rpc' = "in_call"
  /\ log' = Append(log, [ev |-> "call", pos |-> RunCalled(order, iter),
                         fn |-> RecordAt(st, RunCalled(order, iter)).call_function_ptr,
                         obj |-> RecordAt(st, RunCalled(order, iter)).obj,
                         args |-> rargs])
  /\ UNCHANGED <<variant, st, other, emplaced, segment, order, iter, rargs, held, counter, runs>>
  /\ UNCHANGED <<gvars, vvars, nvars, zvars>>

\* a call that moves the payload of its record out and back in
CallEnd_MovingPayload ==
  /\ rpc = "in_call"
  /\ ~Clobbered(st)
  /\ counter' = HoldForall(RecordAt(st, RunCalled(order, iter)).obj, counter)
  /\ log' = Append(log, [ev |-> "return", pos |-> RunCalled(order, iter),
                         fn |-> RecordAt(st, RunCalled(order, iter)).call_function_ptr,
                         obj |-> RecordAt(st, RunCalled(order, iter)).obj,
                         args |-> rargs])
  /\ iter' = RunStep(order, iter)
  /\ rpc' = "loop"
  /\ st' = [st EXCEPT !.n_move_destroy = @ + 1]
  /\ UNCHANGED <<variant, other, emplaced, segment, order, rargs, held, runs>>
  /\ UNCHANGED <<gvars, vvars, nvars, zvars>>

\* the call returns and the iterator moves on
CallEnd ==
  /\ rpc = "in_call"
  /\ ~Clobbered(st)
  /\ counter' = HoldForall(RecordAt(st, RunCalled(order, iter)).obj, counter)
  /\ log' = Append(log, [ev |-> "return", pos |-> RunCalled(order, iter),
                         fn |-> RecordAt(st, RunCalled(order, iter)).call_function_ptr,
                         obj |-> RecordAt(st, RunCalled(order, iter)).obj,
                         args |-> rargs])
  /\ iter' = RunStep(order, iter)
  /\ rpc' = "loop"
  /\ UNCHANGED <<variant, st, other, emplaced, segment, order, rargs, held, runs>>
  /\ UNCHANGED <<gvars, vvars, nvars, zvars>>

RunReturn ==
  /\ rpc = "loop"
  /\ ~Clobbered(st)
  /\ ~RunMore(order, iter, size(st))
  /\ rpc' = "build"
  /\ UNCHANGED <<variant, st, other, emplaced, segment, order, iter, rargs, held, log, counter, runs>>
  /\ UNCHANGED <<gvars, vvars, nvars, zvars>>

StoreNext ==
  \/ \E ty \in Holders : Enqueue(ty)
  \/ \E num_loops \in 0..MaxLoops, loop_storage_size \in 0..MaxReserve :
       Reserve(num_loops, loop_storage_size)
  \/ \E off \in DOMAIN st.arena : HeapClobber(off)

\* one storage whose allocator can fail during an emplace
FailNext ==
  \/ \E ty \in Holders : Enqueue(ty)
  \/ Reserve(MaxLoops, MaxReserve)
  \/ \E off \in DOMAIN st.arena : HeapClobber(off)
  \/ \E ty \in Holders : EnqueueFails(ty)

\* two storages: emplace, reserve, the moves between them, their destruction
MoveNext ==
  \/ \E ty \in Holders : Enqueue(ty)
  \/ Reserve(MaxLoops, MaxReserve)
  \/ \E off \in DOMAIN st.arena : HeapClobber(off)
  \/ ConstructOther
  \/ MoveConstruct
  \/ MoveAssign
  \/ MoveAssignBack
  \/ DestroyStorage
  \/ DestroyOther

RunNext ==
  \/ \E ty \in Holders : Enqueue(ty)
  \/ \E num_loops \in 0..MaxLoops, loop_storage_size \in 0..MaxReserve :
       Reserve(num_loops, loop_storage_size)
  \/ \E off \in DOMAIN st.arena : HeapClobber(off)
  \/ \E o \in {"ordered", "reverse"}, a \in RunArgs : RunStart(o, a)
  \/ CallBegin
  \/ CallEnd
  \/ RunReturn

(***************************************************************************)
(* SimpleVector on its own: two vectors over one allocator.                *)
(***************************************************************************)
MaxVecLen == 3
MaxVecReserve == 4
MaxVecElem == 2
MaxVecBlocks == 3

VecInit ==
  /\ vec = NewSimpleVector
  /\ vother = <<>>
  /\ valoc = NewAllocator
  /\ vop = <<"construct", 0>>
  /\ vev = <<>>
  /\ vpc = "live"

VEmplaceBack(x) ==
  /\ vpc = "live"
  /\ SV_size(vec) < MaxVecLen
  /\ LET r == SV_emplace_back(vec, valoc, x) IN
       /\ vec' = r.vec
       /\ valoc' = r.aloc
       /\ vev' = r.ev
  /\ vop' = <<"emplace_back", x>>
  /\ UNCHANGED <<vother, vpc>>
  /\ UNCHANGED <<gvars, svars, nvars, zvars>>

VReserve(count) ==
  /\ vpc = "live"
  /\ LET r == SV_reserve(vec, valoc, count) IN
       /\ vec' = r.vec
       /\ valoc' = r.aloc
       /\ vev' = r.ev
  /\ vop' = <<"reserve", count>>
  /\ UNCHANGED <<vother, vpc>>
  /\ UNCHANGED <<gvars, svars, nvars, zvars>>

VPopBack ==
  /\ vpc = "live"
  /\ SV_size(vec) > 0
  /\ LET r == SV_pop_back(vec) IN
       /\ vec' = r.vec
       /\ vev' = r.ev
       /\ vop' = <<"pop_back", r.last>>
  /\ UNCHANGED <<vother, valoc, vpc>>
  /\ UNCHANGED <<gvars, svars, nvars, zvars>>

VClear ==
  /\ vpc = "live"
  /\ LET r == SV_clear(vec, valoc) IN
       /\ vec' = r.vec
       /\ valoc' = r.aloc
       /\ vev' = r.ev
  /\ vop' = <<"clear", 0>>
  /\ UNCHANGED <<vother, vpc>>
  /\ UNCHANGED <<gvars, svars, nvars, zvars>>

\* SimpleVector other(std::move(vec))
VMoveConstruct ==
  /\ vpc = "live"
  /\ vother = <<>>
  /\ LET r == SV_move_construct(vec) IN
       /\ vother' = <<r.dst>>
       /\ vec' = r.src
  /\ vop' = <<"move_construct", 0>>
  /\ vev' = <<>>
  /\ UNCHANGED <<valoc, vpc>>
  /\ UNCHANGED <<gvars, svars, nvars, zvars>>

\* other = std::move(vec).  operator= ends without a return statement: the
\* call either comes back to the caller or the program goes astray there.
VMoveAssign ==
  /\ vpc = "live"
  /\ vother # <<>>
  /\ Cardinality(valoc.live) < MaxVecBlocks
  /\ \/ /\ LET r == SV_move_assign(vother[1], vec) IN
             /\ vother' = <<r.dst>>
             /\ vec' = r.src
        /\ vop' = <<"move_assign", 0>>
        /\ vev' = <<>>
        /\ UNCHANGED vpc
     \/ /\ vpc' = "trapped"
        /\ UNCHANGED <<vec, vother, vop, vev>>
  /\ UNCHANGED valoc
  /\ UNCHANGED <<gvars, svars, nvars, zvars>>

\* ~SimpleVector() of vec
VDestroy ==
  /\ vpc = "live"
  /\ LET r == SV_clear(vec, valoc) IN
       /\ vec' = r.vec
       /\ valoc' = r.aloc
       /\ vev' = r.ev
  /\ vop' = <<"destroy", 0>>
  /\ vpc' = "destroyed"
  /\ UNCHANGED vother
  /\ UNCHANGED <<gvars, svars, nvars, zvars>>

\* ~SimpleVector() of the other vector
VDestroyOther ==
  /\ vpc # "trapped"
  /\ vother # <<>>
  /\ LET r == SV_clear(vother[1], valoc) IN
       /\ valoc' = r.aloc
       /\ vev' = r.ev
  /\ vother' = <<>>
  /\ vop' = <<"destroy_other", 0>>
  /\ UNCHANGED <<vec, vpc>>
  /\ UNCHANGED <<gvars, svars, nvars, zvars>>

VecNext ==
  \/ \E x \in 1..MaxVecElem : VEmplaceBack(x)
  \/ \E count \in 0..MaxVecReserve : VReserve(count)
  \/ VPopBack
  \/ VClear
  \/ VMoveConstruct
  \/ VMoveAssign
  \/ VDestroy
  \/ VDestroyOther

(***************************************************************************)
(* WorkGroupNode.  Its collaborators WorkPool, WorkGroup and WorkSite are   *)
(* kept abstract: a pool is the sequence of the loops enqueued, instantiate *)
(* hands that sequence to a new group and leaves the pool empty, and        *)
(* run(args) of a group yields a site that names the loops run and the      *)
(* arguments they were run with.                                            *)
(***************************************************************************)
MaxPoolLoops == 2
MaxLoopId == 1

NodeArgs == {"default", "x1"}

WorkPool_new == <<>>

WorkPool_num_loops(pool) == Len(pool)

WorkPool_enqueue(pool, loop) == Append(pool, loop)

WorkPool_instantiate(pool) == [group |-> pool, pool |-> <<>>]

WorkPool_clear(pool) == <<>>

WorkGroup_run(group, args) == [ran |-> group, args |-> args]

WorkGroup_clear(group) == <<>>

WorkSite_clear(site) == [ran |-> <<>>, args |-> "default"]

\* WorkGroupNode(aloc): the members in declaration order
NewWorkGroupNode ==
  LET inst == WorkPool_instantiate(WorkPool_new) IN
  [m_pool         |-> inst.pool,
   m_group        |-> inst.group,
   m_site         |-> WorkGroup_run(inst.group, "default"),
   m_args         |-> "default",
   m_instantiated |-> TRUE]

num_loops(n) == WorkPool_num_loops(n.m_pool)

\* an enqueue that leaves the instantiated flag as it is
WGN_enqueue_KeepFlag(n, loop) ==
  [n EXCEPT !.m_pool = WorkPool_enqueue(@, loop)]

\* enqueue(args...)
WGN_enqueue(n, loop) ==
  [n EXCEPT !.m_instantiated = FALSE,
            !.m_pool = WorkPool_enqueue(@, loop)]

\* instantiate()
WGN_instantiate(n) ==
  IF ~n.m_instantiated
    THEN LET inst == WorkPool_instantiate(n.m_pool) IN
         [n EXCEPT !.m_instantiated = TRUE,
                   !.m_group = inst.group,
                   !.m_pool = inst.pool]
    ELSE n

\* set_args(args...)
WGN_set_args(n, args) == [n EXCEPT !.m_args = args]

\* a clear that keeps the stored arguments
WGN_clear_KeepArgs(n) ==
  LET n1   == [n EXCEPT !.m_instantiated = TRUE,
                        !.m_site = WorkSite_clear(@),
                        !.m_group = WorkGroup_clear(@),
                        !.m_pool = WorkPool_clear(@)]
      inst == WorkPool_instantiate(n1.m_pool)
  IN [n1 EXCEPT !.m_group = inst.group,
                !.m_pool = inst.pool,
                !.m_site = WorkGroup_run(inst.group, "default")]

\* clear()
WGN_clear(n) ==
  LET n1   == [n EXCEPT !.m_instantiated = TRUE,
                        !.m_site = WorkSite_clear(@),
                        !.m_group = WorkGroup_clear(@),
                        !.m_pool = WorkPool_clear(@),
                        !.m_args = "default"]
      inst == WorkPool_instantiate(n1.m_pool)
  IN [n1 EXCEPT !.m_group = inst.group,
                !.m_pool = inst.pool,
                !.m_site = WorkGroup_run(inst.group, "default")]

\* exec_impl_helper(er, ...): m_site = m_group.run(er, m_args...)
WGN_exec_impl_helper(n) == [n EXCEPT !.m_site = WorkGroup_run(n.m_group, n.m_args)]

NodeInit ==
  /\ node = NewWorkGroupNode
  /\ nlog = <<<<"construct", 0>>>>

NEnqueue(loop) ==
  /\ WorkPool_num_loops(node.m_pool) < MaxPoolLoops
  /\ node' = WGN_enqueue(node, loop)
  /\ nlog' = <<<<"enqueue", loop>>>>
  /\ UNCHANGED <<gvars, svars, vvars, zvars>>

NInstantiate ==
  /\ node' = WGN_instantiate(node)
  /\ nlog' = <<<<"instantiate", 0>>>>
  /\ UNCHANGED <<gvars, svars, vvars, zvars>>

NSetArgs(args) ==
  /\ node' = WGN_set_args(node, args)
  /\ nlog' = <<<<"set_args", 0>>>>
  /\ UNCHANGED <<gvars, svars, vvars, zvars>>

NClear ==
  /\ node' = WGN_clear(node)
  /\ nlog' = <<<<"clear", Len(node.m_pool) + Len(node.m_group)>>>>
  /\ UNCHANGED <<gvars, svars, vvars, zvars>>

\* an exec that starts the run before it has waited on the graph resource
NExec_RunBeforeWait(same_resources) ==
  /\ node' = WGN_exec_impl_helper(WGN_instantiate(node))
  /\ nlog' = IF same_resources
               THEN <<<<"exec", 1>>, <<"run", 0>>, <<"return", 0>>>>
               ELSE <<<<"exec", 0>>, <<"run", 0>>, <<"gr.wait", 0>>,
                      <<"gr.wait_for", 0>>, <<"return", 0>>>>
  /\ UNCHANGED <<gvars, svars, vvars, zvars>>

\* exec(gr): instantiate(), then exec_impl.  With a graph resource of another
\* type than the execution resource, exec_impl(false_type) waits on gr, runs
\* on the default execution resource and makes gr wait for the run's event.
NExec(same_resources) ==
  /\ node' = WGN_exec_impl_helper(WGN_instantiate(node))
  /\ nlog' = IF same_resources
               THEN <<<<"exec", 1>>, <<"run", 0>>, <<"return", 0>>>>
               ELSE <<<<"exec", 0>>, <<"gr.wait", 0>>, <<"run", 0>>,
                      <<"gr.wait_for", 0>>, <<"return", 0>>>>
  /\ UNCHANGED <<gvars, svars, vvars, zvars>>

NodeNext ==
  \/ \E loop \in 1..MaxLoopId : NEnqueue(loop)
  \/ NInstantiate
  \/ \E args \in NodeArgs : NSetArgs(args)
  \/ NClear
  \/ \E same_resources \in BOOLEAN : NExec(same_resources)

\* the SimpleVector operations of one vector
VecBuildNext ==
  \/ \E x \in 1..MaxVecElem : VEmplaceBack(x)
  \/ \E count \in 0..MaxVecReserve : VReserve(count)
  \/ VPopBack
  \/ VClear

\* construction by emplace and reserve, then destruction, of a storage and of
\* a SimpleVector
DestroyNext ==
  \/ \E ty \in Holders : Enqueue(ty)
  \/ Reserve(MaxLoops, MaxReserve)
  \/ \E off \in DOMAIN st.arena : HeapClobber(off)
  \/ DestroyStorage
  \/ \E x \in 1..MaxVecElem : VEmplaceBack(x)
  \/ VDestroy

ContainerNext ==
  \/ NodeNext
  \/ VecBuildNext

(***************************************************************************)
(* Specifications: the graph executors with an untouched storage, and the  *)
(* storage and runner with an untouched graph.                             *)
(***************************************************************************)
StoreIdle ==
  /\ variant = "array_of_pointers"
  /\ st = NewStorage
  /\ other = <<>>
  /\ emplaced = <<>>
  /\ segment = <<0, RangeLen>>
  /\ rpc = "build"
  /\ order = "ordered"
  /\ iter = 0
  /\ rargs = "x0"
  /\ held = <<>>
  /\ log = <<>>
  /\ counter = [i \in 0..(RangeLen - 1) |-> 0]
  /\ runs = 0

GraphIdle ==
  /\ policy = "loop"
  /\ parents = [n \in Nodes |-> {}]
  /\ empty = {}
  /\ m_node_execs = <<>>
  /\ m_count = [n \in Nodes |-> 0]
  /\ value = [n \in Nodes |-> 1]
  /\ pc = "idle"
  /\ idx = 0
  /\ nc = 0
  /\ tasks = <<>>
  /\ status = [n \in Nodes |-> "pending"]
  /\ execCount = [n \in Nodes |-> 0]
  /\ run = 0

(***************************************************************************)
(* ZipIterator (util/zip.hpp): several random access iterators moved       *)
(* together.  A component iterator is modelled by its position.            *)
(***************************************************************************)
\* the number of iterators zipped
NumIters == 3

\* the length of the ranges the component iterators traverse
ZipLen == 3

\* the largest distance of one += or -=
MaxStep == 2

\* the largest position a component's range begins at
MaxBegin == 2

Components == 1..NumIters

Steps == (0 - MaxStep)..MaxStep

\* the positions an iterator of a zipped range can be moved to by one step
Positions == (0 - MaxStep)..(MaxBegin + ZipLen + MaxStep)

\* detail::PreInc, PreDec, PlusEq{rhs}, MinusEq{rhs}: functors on one iterator
PreInc == [it \in Positions |-> it + 1]

PreDec == [it \in Positions |-> it - 1]

PlusEq(rhs) == [it \in Positions |-> it + rhs]

MinusEq(rhs) == [it \in Positions |-> it - rhs]

\* detail::zip_for_each(m_iterators, f): f is applied to every component
zip_for_each(iters, f) == [i \in DOMAIN iters |-> f[iters[i]]]

\* an operator-= that moves the first component only
ZipMinusEq_FirstOnly(z, rhs) == [z EXCEPT ![1] = MinusEq(rhs)[@]]

\* ZipIterator::operator++, operator--, operator+=, operator-=
ZipPreInc(z) == zip_for_each(z, PreInc)

ZipPreDec(z) == zip_for_each(z, PreDec)

ZipPlusEq(z, rhs) == zip_for_each(z, PlusEq(rhs))

ZipMinusEq(z, rhs) == zip_for_each(z, MinusEq(rhs))

\* ZipIterator::operator==, operator<, operator> and the difference of two
\* ZipIterators: get<0>() of each side
ZipEq(lhs, rhs) == lhs[1] = rhs[1]

ZipLess(lhs, rhs) == lhs[1] < rhs[1]

ZipGreater(lhs, rhs) == lhs[1] > rhs[1]

ZipDiff(lhs, rhs) == lhs[1] - rhs[1]

\* every component stays inside its range, or one past its end
ZipInRange(z) == \A i \in Components : zfirst[i] <= z[i] /\ z[i] <= zfirst[i] + ZipLen

\* zip(begin_1, ..., begin_n) and a copy of it
ZipInit ==
  /\ zfirst \in [Components -> 0..MaxBegin]
  /\ zit = zfirst
  /\ zother = zfirst
  /\ zop = <<"construct", 0>>

ZipIdle ==
  /\ zfirst = [i \in Components |-> 0]
  /\ zit = zfirst
  /\ zother = zfirst
  /\ zop = <<"construct", 0>>

\* ++zit
ZInc ==
  /\ ZipInRange(ZipPreInc(zit))
  /\ zit' = ZipPreInc(zit)
  /\ zop' = <<"++", 1>>
  /\ UNCHANGED <<zfirst, zother>>
  /\ UNCHANGED <<gvars, svars, vvars, nvars>>

\* --zit
ZDec ==
  /\ ZipInRange(ZipPreDec(zit))
  /\ zit' = ZipPreDec(zit)
  /\ zop' = <<"--", 1>>
  /\ UNCHANGED <<zfirst, zother>>
  /\ UNCHANGED <<gvars, svars, vvars, nvars>>

\* zit += rhs
ZPlusEq(rhs) ==
  /\ ZipInRange(ZipPlusEq(zit, rhs))
  /\ zit' = ZipPlusEq(zit, rhs)
  /\ zop' = <<"+=", rhs>>
  /\ UNCHANGED <<zfirst, zother>>
  /\ UNCHANGED <<gvars, svars, vvars, nvars>>

\* zit -= rhs
ZMinusEq(rhs) ==
  /\ ZipInRange(ZipMinusEq(zit, rhs))
  /\ zit' = ZipMinusEq(zit, rhs)
  /\ zop' = <<"-=", rhs>>
  /\ UNCHANGED <<zfirst, zother>>
  /\ UNCHANGED <<gvars, svars, vvars, nvars>>

\* ZipIterator zother(zit)
ZCopy ==
  /\ zother' = zit
  /\ zop' = <<"copy", 0>>
  /\ UNCHANGED <<zfirst, zit>>
  /\ UNCHANGED <<gvars, svars, vvars, nvars>>

ZipNext ==
  \/ ZInc
  \/ ZDec
  \/ \E rhs \in Steps : ZPlusEq(rhs)
  \/ \E rhs \in Steps : ZMinusEq(rhs)
  \/ ZCopy

GraphStart == GraphInit /\ StoreIdle /\ VecInit /\ NodeInit /\ ZipIdle

StoreStart == StoreInit /\ GraphIdle /\ VecInit /\ NodeInit /\ ZipIdle

VecStart == VecInit /\ GraphIdle /\ StoreIdle /\ NodeInit /\ ZipIdle

ZipStart == ZipInit /\ GraphIdle /\ StoreIdle /\ VecInit /\ NodeInit

GraphSpec == GraphStart /\ [][GraphNext]_vars

GraphFairSpec == GraphStart /\ [][GraphNext]_vars /\ WF_vars(GraphStep)

StoreSpec == StoreStart /\ [][StoreNext]_vars

RunSpec == StoreStart /\ [][RunNext]_vars

MoveSpec == StoreStart /\ [][MoveNext]_vars

DestroySpec == StoreStart /\ [][DestroyNext]_vars

FailSpec == StoreStart /\ [][FailNext]_vars

ZipSpec == ZipStart /\ [][ZipNext]_vars

VecSpec == VecStart /\ [][VecNext]_vars

ContainerSpec == VecStart /\ [][ContainerNext]_vars

(***************************************************************************)
(* Properties of the storage variants.                                     *)
(***************************************************************************)
\* C3: after N emplace operations (interleaved with reserve calls) on a fresh
\* storage, size() == N and iterating begin()..end() visits the records in
\* the order they were emplaced.
C3_SizeAndIterationOrder ==
  /\ size(st) = Len(emplaced)
  /\ Iterate(st) = emplaced

\* C4: the bytes occupied never exceed the byte capacity: m_array_end never
\* passes m_array_cap in the ragged and constant-stride variants.
C4_SizeWithinCapacity ==
  variant \in {"ragged", "constant_stride"} =>
    storage_size(st) <= storage_capacity(st)

\* a step that moved the records or the vector's elements to a new block
Relocates ==
  \/ st'.m_array_begin # st.m_array_begin
  \/ st'.m_vec.m_begin # st.m_vec.m_begin
  \/ st'.m_offsets.m_begin # st.m_offsets.m_begin

\* C5: whenever a storage relocates, every record live before is live
\* afterwards with the same vtable, the same cached call pointer and the same
\* payload, at the same position in iteration order.
C5_RelocationPreservesRecords ==
  [][Relocates =>
       /\ size(st') >= size(st)
       /\ \A i \in 1..size(st) : RecordAt(st', i) = RecordAt(st, i)
       /\ \A i \in 1..SV_size(st.m_vec) : st'.m_vec.elems[i] = st.m_vec.elems[i]
       /\ \A i \in 1..SV_size(st.m_offsets) : st'.m_offsets.elems[i] = st.m_offsets.elems[i]
    ]_vars

\* C5 witness: a constant-stride storage whose records were moved by two
\* stride growths still holds the three records emplaced.
C5_Witness ==
  /\ variant = "constant_stride"
  /\ st.n_move_destroy >= 3
  /\ st.m_stride = 3
  /\ size(st) = 3
  /\ Iterate(st) = emplaced

\* the storage obtained by emplacing the first k records of recs into a
\* newly constructed storage, with no other operation in between
RECURSIVE Replay(_, _)
Replay(recs, k) ==
  IF k = 0 THEN NewStorage
  ELSE emplace(Replay(recs, k - 1), recs[k].vtable, recs[k].obj)

\* the sizes of the records emplaced, in order
Sizes == [i \in 1..Len(emplaced) |-> SizeOf(emplaced[i].vtable)]

\* the last operation moved records to another block
EventsRelocate(ev) == \E k \in 1..Len(ev) : ev[k][1] = "move_construct"

\* the last operation obtained a block from the allocator
EventsAllocate(ev) == \E k \in 1..Len(ev) : ev[k][1] = "allocate"

\* C13: records of sizes 8, 64, 8 (any sizes a, b, a with 1 < a < b) emplaced
\* in that order into a fresh constant-stride storage: the final stride is
\* the large size, the one stride-growth relocation of a record is the one
\* caused by the large record, and the trailing small record relocates
\* nothing.
C13_OneStrideGrowthRelocation ==
  (/\ variant = "constant_stride"
   /\ st = Replay(emplaced, Len(emplaced))
   /\ \E a, b \in Holders : 1 < a /\ a < b /\ Sizes = <<a, b, a>>) =>
     /\ st.m_stride = Sizes[2]
     /\ st.n_move_destroy = 1
     /\ ~EventsRelocate(st.events)
     /\ ~EventsAllocate(st.events)

\* in the events ev, record or element ix of block is destroyed exactly once,
\* and the block is released, after that
DestroyedThenReleased(ev, block, ix) ==
  /\ Cardinality({k \in 1..Len(ev) : ev[k] = <<"destroy", block, ix>>}) = 1
  /\ \E kd \in 1..Len(ev) : ev[kd] = <<"deallocate", block, 0>>
  /\ \A k, kd \in 1..Len(ev) :
       (ev[k] = <<"destroy", block, ix>> /\ ev[kd] = <<"deallocate", block, 0>>) => k < kd

\* the block and the offset in it of record i of storage s
RecordBlock(s, i) ==
  IF variant = "array_of_pointers" THEN s.m_vec.elems[i] ELSE s.m_array_begin

RecordOffset(s, i) ==
  CASE variant = "array_of_pointers" -> 0
    [] variant = "ragged"            -> s.m_offsets.elems[i]
    [] variant = "constant_stride"   -> (i - 1) * s.m_stride

\* C14: when a storage or a SimpleVector is destroyed, every live record or
\* element is destroyed exactly once, before the block that holds it is
\* released: per record in array_of_pointers, the arena after all records in
\* the ragged and constant-stride variants, the vector's block after all of
\* its elements.
C14_DestroyBeforeRelease ==
  [][/\ (rpc = "build" /\ rpc' = "destroyed") =>
          /\ \A i \in 1..size(st) :
               DestroyedThenReleased(st'.events, RecordBlock(st, i), RecordOffset(st, i))
          /\ \A i \in 1..SV_size(st.m_vec) :
               DestroyedThenReleased(st'.events, st.m_vec.m_begin, i)
          /\ \A i \in 1..SV_size(st.m_offsets) :
               DestroyedThenReleased(st'.events, st.m_offsets.m_begin, i)
     /\ (vpc = "live" /\ vpc' = "destroyed") =>
          \A i \in 1..SV_size(vec) : DestroyedThenReleased(vev', vec.m_begin, i)
    ]_vars

\* C14 witness: a ragged storage of two records and a vector of two elements
\* have been destroyed.
C14_Witness ==
  /\ variant = "ragged"
  /\ rpc = "destroyed"
  /\ Len(st.events) = 6
  /\ vpc = "destroyed"
  /\ Len(vev) = 3

\* the blocks a storage points to: arena, vector blocks, record blocks
OwnedBlocks(s) ==
  ({s.m_array_begin, s.m_vec.m_begin, s.m_offsets.m_begin}
     \cup (IF variant = "array_of_pointers" THEN Range(s.m_vec.elems) ELSE {})) \ {0}

\* the number of the two storages that own block b
Owners(b) ==
  (IF b \in OwnedBlocks(st) THEN 1 ELSE 0)
  + (IF other # <<>> /\ b \in OwnedBlocks(other[1]) THEN 1 ELSE 0)

SingleOwner == \A b \in st.aloc.live : Owners(b) = 1

\* a storage as a move leaves its source
MovedFrom(s) ==
  /\ size(s) = 0
  /\ storage_size(s) = 0
  /\ s.m_array_begin = 0 /\ s.m_array_end = 0 /\ s.m_array_cap = 0
  /\ s.m_vec = NewSimpleVector
  /\ s.m_offsets = NewSimpleVector

\* C16: a move (construction or assignment) of a WorkStorage, and of the
\* SimpleVector in it, transfers ownership: the destination then holds the
\* source's former records in the same order, the source is empty with null
\* begin/end/cap, and at every moment each allocated block is owned by
\* exactly one container.
C16_MoveTransfersOwnership ==
  [][/\ SingleOwner'
     /\ st'.n_moves = st.n_moves + 1 =>
          \/ /\ Iterate(other'[1]) = Iterate(st)
             /\ MovedFrom(st')
          \/ /\ other # <<>>
             /\ Iterate(st') = Iterate(other[1])
             /\ MovedFrom(other'[1])
    ]_vars

\* a step that emplaced a record into the constant-stride storage, and the
\* size of that record
CS_EmplaceStep ==
  /\ variant = "constant_stride"
  /\ Len(emplaced') = Len(emplaced) + 1

NewRecordSize == SizeOf(emplaced'[Len(emplaced')].vtable)

StrideIsMaxSize ==
  (/\ variant = "constant_stride"
   /\ Len(emplaced) > 0
   /\ st.n_moves = 0
   /\ rpc = "build") =>
     /\ \E i \in 1..Len(Sizes) : Sizes[i] = st.m_stride
     /\ \A i \in 1..Len(Sizes) : Sizes[i] <= st.m_stride

\* the strides of the storages that exist before and after a step do not
\* decrease over the step
StridesDoNotDecrease ==
  /\ rpc' # "destroyed" => st'.m_stride >= st.m_stride
  /\ (other # <<>> /\ other' # <<>>) => other'[1].m_stride >= other[1].m_stride

\* C18 as stated: in the constant-stride variant m_stride is 1 on a fresh
\* storage, never decreases across any sequence of emplace, reserve and
\* move operations, and after a non-empty sequence of emplaces on a fresh
\* storage equals the largest record size emplaced so far.
C18_StrideMonotone ==
  [][variant = "constant_stride" =>
       /\ NewStorage.m_stride = 1
       /\ StridesDoNotDecrease
       /\ StrideIsMaxSize'
    ]_vars

\* C18 amended: m_stride is 1 on a fresh storage, never decreases across an
\* emplace, a reserve, or being moved from; a move gives the destination the
\* stride of the source (in a move assignment that may be less than the
\* stride the destination had); after a non-empty sequence of emplaces on a
\* fresh storage it equals the largest record size emplaced so far.
C18_StrideMonotoneButMoveAssign ==
  [][variant = "constant_stride" =>
       /\ NewStorage.m_stride = 1
       /\ st'.n_moves = st.n_moves => StridesDoNotDecrease
       /\ st'.n_moves = st.n_moves + 1 =>
            \/ /\ other'[1].m_stride = st.m_stride
               /\ st'.m_stride = st.m_stride
            \/ /\ other # <<>>
               /\ st'.m_stride = other[1].m_stride
               /\ other'[1].m_stride = other[1].m_stride
       /\ StrideIsMaxSize'
    ]_vars

\* C18 witness: a storage grown to stride 3 by emplaces was moved into a
\* second storage, which has its two records and its stride; the source is
\* empty and kept the stride.
C18_Witness ==
  /\ variant = "constant_stride"
  /\ st.n_moves = 1
  /\ size(st) = 0
  /\ st.m_stride = 3
  /\ other # <<>>
  /\ other[1].m_stride = 3
  /\ size(other[1]) = 2

\* C18 witness of the emplace part: sizes 1, 3, 2 emplaced into a fresh
\* storage leave the stride at 3.
C18_EmplaceWitness ==
  /\ variant = "constant_stride"
  /\ Sizes = <<1, 3, 2>>
  /\ st.n_moves = 0
  /\ rpc = "build"
  /\ st.m_stride = 3

\* the two growth paths of constant-stride create_value, as conditions on
\* the storage before the emplace and the size of the new record
CS_CapacityPath ==
  NewRecordSize > storage_unused(st) /\ NewRecordSize <= st.m_stride

CS_StridePath == NewRecordSize > st.m_stride

\* what C19 says of the two paths up to the placing of the new record
CS_GrowthPaths ==
  /\ CS_CapacityPath =>
       /\ storage_capacity(st') = Max(storage_size(st) + NewRecordSize,
                                      2 * storage_capacity(st))
       /\ st'.m_stride = st.m_stride
  /\ CS_StridePath =>
       /\ st'.m_stride = NewRecordSize
       /\ storage_capacity(st') = (size(st) + 1) * NewRecordSize
       /\ \A i \in 1..size(st) :
            /\ st'.events[2 * i] =
                 <<"move_construct", st'.m_array_begin, (i - 1) * st'.m_stride>>
            /\ st'.events[2 * i + 1] =
                 <<"destroy", st.m_array_begin, (i - 1) * st.m_stride>>
            /\ ArenaAt(st', (i - 1) * st'.m_stride) = ArenaAt(st, (i - 1) * st.m_stride)
  /\ (CS_CapacityPath \/ CS_StridePath) =>
       /\ st'.events[Len(st'.events)] =
            <<"construct", st'.m_array_begin, size(st) * st'.m_stride>>
       /\ ArenaAt(st', size(st) * st'.m_stride) = emplaced'[Len(emplaced')]

\* C19 as stated: constant-stride emplace has two growth paths.  When
\* value_size > storage_unused() and value_size <= stride the capacity grows
\* to max(storage_size + value_size, 2*capacity) and the stride is unchanged;
\* when value_size > stride the arena is re-laid out with stride = value_size
\* and capacity (size+1)*value_size, record i moving from i*old_stride to
\* i*new_stride; in both the new record is placed at offset size*stride and
\* storage_size grows by exactly one stride.
C19_TwoGrowthPaths ==
  [][CS_EmplaceStep =>
       /\ CS_GrowthPaths
       /\ (CS_CapacityPath \/ CS_StridePath) =>
            storage_size(st') = storage_size(st) + st'.m_stride
    ]_vars

\* C19 amended: as stated, but storage_size after the emplace is
\* (size+1)*stride with the stride after the emplace: it grows by one stride
\* over the re-laid-out arena, which in the stride-growth path is
\* size*(new_stride - old_stride) more than one stride over the storage_size
\* before the emplace.
C19_TwoGrowthPathsRelaidOut ==
  [][CS_EmplaceStep =>
       /\ CS_GrowthPaths
       /\ (CS_CapacityPath \/ CS_StridePath) =>
            /\ storage_size(st') = (size(st) + 1) * st'.m_stride
            /\ storage_size(st') =
                 storage_size(st) + st'.m_stride
                   + size(st) * (st'.m_stride - st.m_stride)
    ]_vars

\* C19 witness: a record of size 3 emplaced after one of size 1 re-laid the
\* arena out at stride 3 with capacity 6.
C19_Witness ==
  /\ variant = "constant_stride"
  /\ Sizes = <<1, 3>>
  /\ st.m_stride = 3
  /\ storage_capacity(st) = 6
  /\ storage_size(st) = 6
  /\ EventsRelocate(st.events)

\* the events ev, from position ka on, are those of a reallocation of the
\* ragged arena of storage s into block new of cap bytes: the allocation,
\* then move_destroy of each record from the old arena to the same offset of
\* the new one in the order of the offset table, then the release of the old
\* arena
RG_ReallocationAt(ev, ka, s, new, cap) ==
  LET n == SV_size(s.m_offsets) IN
  /\ ka + 2 * n + 1 <= Len(ev)
  /\ ev[ka] = <<"allocate", new, cap>>
  /\ \A i \in 1..n :
       /\ ev[ka + 2 * i - 1] = <<"move_construct", new, s.m_offsets.elems[i]>>
       /\ ev[ka + 2 * i] = <<"destroy", s.m_array_begin, s.m_offsets.elems[i]>>
  /\ ev[ka + 2 * n + 1] = <<"deallocate", s.m_array_begin, 0>>
  /\ s.m_array_begin # 0 =>
       \A k \in 1..Len(ev) :
         ev[k] = <<"deallocate", s.m_array_begin, 0>> => k = ka + 2 * n + 1

\* C20: in the ragged variant, when an emplace or a reserve finds the arena
\* too small, the whole arena is reallocated, every existing record is
\* relocated by move_destroy in increasing offset order, and only after all
\* of them is the old arena deallocated; the offset table is unchanged by
\* the relocation (each record keeps its byte offset).
C20_RaggedReallocation ==
  [][variant = "ragged" =>
       /\ (Len(emplaced') = Len(emplaced) + 1
            /\ SizeOf(emplaced'[Len(emplaced')].vtable) > storage_unused(st)) =>
            st'.m_array_begin # st.m_array_begin
       /\ st'.m_array_begin # st.m_array_begin =>
            /\ storage_capacity(st') > storage_capacity(st)
            /\ \E ka \in 1..Len(st'.events) :
                 RG_ReallocationAt(st'.events, ka, st, st'.m_array_begin,
                                   storage_capacity(st'))
            /\ \A i, j \in 1..SV_size(st.m_offsets) :
                 i < j => st.m_offsets.elems[i] < st.m_offsets.elems[j]
            /\ \A i \in 1..SV_size(st.m_offsets) :
                 /\ st'.m_offsets.elems[i] = st.m_offsets.elems[i]
                 /\ ArenaAt(st', st.m_offsets.elems[i]) = ArenaAt(st, st.m_offsets.elems[i])
    ]_vars

\* C20 witness: the third emplace into a ragged storage found the arena too
\* small and moved the two records before it to a new arena.
C20_Witness ==
  /\ variant = "ragged"
  /\ size(st) = 3
  /\ Cardinality({k \in 1..Len(st.events) :
                    /\ st.events[k][1] = "move_construct"
                    /\ st.events[k][2] = st.m_array_begin}) = 2

\* the events of ev that concern block b
EventsOn(ev, b) == SelectSeq(ev, LAMBDA e : e[2] = b)

\* C21: in the array-of-pointers variant each emplace performs exactly one
\* record allocation, sized for that record; across later emplace and
\* reserve operations the address of a record never changes and the
\* vtable's move_construct is never invoked; the vtable's destroy is invoked
\* only when the storage is destroyed.
C21_PointerRecordsNeverMove ==
  [][variant = "array_of_pointers" =>
       /\ st'.n_move_destroy = 0
       /\ rpc' = "build" =>
            /\ \A i \in 1..size(st) :
                 /\ size(st') >= i
                 /\ st'.m_vec.elems[i] = st.m_vec.elems[i]
                 /\ st'.heap[st'.m_vec.elems[i]] = st.heap[st.m_vec.elems[i]]
                 /\ st.m_vec.elems[i] \in st'.aloc.live
                 /\ st' # st => EventsOn(st'.events, st.m_vec.elems[i]) = <<>>
            /\ size(st') = size(st) + 1 =>
                 LET p == st'.m_vec.elems[size(st')] IN
                 /\ p \notin st.aloc.live
                 /\ EventsOn(st'.events, p) =
                      <<<<"allocate", p, SizeOf(st'.heap[p].vtable)>>,
                        <<"construct", p, 0>>>>
                 /\ st'.heap[p] = emplaced'[Len(emplaced')]
            /\ (size(st') = size(st) /\ st' # st) =>
                 \A k \in 1..Len(st'.events) : st'.events[k][1] # "construct"
       /\ (rpc = "build" /\ rpc' = "destroyed") =>
            \A i \in 1..size(st) :
              EventsOn(st'.events, st.m_vec.elems[i]) =
                <<<<"destroy", st.m_vec.elems[i], 0>>,
                  <<"deallocate", st.m_vec.elems[i], 0>>>>
    ]_vars

\* C21 witness: three records were emplaced, the pointer vector grew twice on
\* the way, and the storage was then destroyed, which destroyed each record.
C21_Witness ==
  /\ variant = "array_of_pointers"
  /\ rpc = "destroyed"
  /\ st.n_move_destroy = 0
  /\ Cardinality({k \in 1..Len(st.events) :
                    st.events[k][1] = "destroy" /\ st.events[k][3] = 0
                    /\ st.events[k][2] # 0}) = 3

\* the bytes of the records the storage holds
RecordBytes == SumOver(Sizes, 1..Len(Sizes))

\* C22: in every reachable state of each storage variant size() is the
\* number of live records and storage_size() the bytes they occupy: the sum
\* of the record sizes for array_of_pointers and ragged, size()*stride for
\* constant-stride, so that storage_size() is an exact multiple of the stride.
C22_SizeAndStorageSize ==
  /\ size(st) = Len(emplaced)
  /\ variant \in {"array_of_pointers", "ragged"} => storage_size(st) = RecordBytes
  /\ variant = "constant_stride" =>
       /\ storage_size(st) = size(st) * st.m_stride
       /\ storage_size(st) % st.m_stride = 0

\* C22 witness: records of sizes 1, 3, 2 were emplaced into a storage that
\* had been moved from: they occupy 6 bytes, or 9 at stride 3.
C22_Witness ==
  /\ Sizes = <<1, 3, 2>>
  /\ st.n_moves = 1
  /\ storage_size(st) = IF variant = "constant_stride" THEN 9 ELSE 6

\* capacity new comes from capacity old by doubling, or covers what was
\* needed when there was no capacity
Doubled(old, new, needed) ==
  /\ new >= 2 * old
  /\ old = 0 => new >= needed

\* C23: capacity grows by doubling: every reallocation that an append
\* triggers (emplace_back of the SimpleVector in a storage, ragged emplace,
\* constant-stride emplace on either growth path) gives a capacity of at
\* least twice the capacity before, or of at least the needed size when the
\* capacity was 0.
C23_AppendDoublesCapacity ==
  [][Len(emplaced') = Len(emplaced) + 1 =>
       /\ st'.m_vec.m_begin # st.m_vec.m_begin =>
            Doubled(st.m_vec.cap, st'.m_vec.cap, SV_size(st'.m_vec))
       /\ st'.m_offsets.m_begin # st.m_offsets.m_begin =>
            Doubled(st.m_offsets.cap, st'.m_offsets.cap, SV_size(st'.m_offsets))
       /\ st'.m_array_begin # st.m_array_begin =>
            Doubled(storage_capacity(st), storage_capacity(st'), storage_size(st'))
    ]_vars

(***************************************************************************)
(* Properties of the runners.                                              *)
(***************************************************************************)
RunReturned == rpc = "build" /\ runs >= 1

\* position in the storage of the j-th record a run calls
CallOrder(o, n, j) == IF o = "ordered" THEN j ELSE n + 1 - j

\* C6: for a storage holding r1..rN, the ordered run invokes r1, r2, ..., rN
\* and the reverse run rN, ..., r2, r1, each call returning before the next
\* one begins.
C6_RunOrder ==
  LET n == Len(held) IN
  /\ Len(log) <= 2 * n
  /\ RunReturned => Len(log) = 2 * n
  /\ \A k \in 1..Len(log) :
       /\ log[k].ev = IF k % 2 = 1 THEN "call" ELSE "return"
       /\ log[k].pos = CallOrder(order, n, (k + 1) \div 2)
       /\ log[k].pos \in 1..n
       /\ log[k].fn = held[log[k].pos].call_function_ptr
       /\ log[k].obj = held[log[k].pos].obj

\* C6 witness: a reverse run over three records has returned.
C6_Witness ==
  /\ RunReturned
  /\ order = "reverse"
  /\ Len(held) = 3
  /\ Len(log) = 6
  /\ log[1].pos = 3

\* C7: one run invokes every live record exactly once with the given runtime
\* arguments, so N loops over one index range that each add 1 leave every
\* element of the range equal to N; an empty storage invokes nothing.
C7_RunCallsEachOnce ==
  RunReturned =>
    LET calls == {k \in 1..Len(log) : log[k].ev = "call"} IN
    /\ Cardinality(calls) = Len(held)
    /\ \A j \in 1..Len(held) :
         Cardinality({k \in calls : /\ log[k].pos = j
                                    /\ log[k].obj = held[j].obj
                                    /\ log[k].args = rargs}) = 1
    /\ \A i \in DOMAIN counter :
         counter[i] = IF segment[1] <= i /\ i < segment[2] THEN Len(held) ELSE 0
    /\ Len(held) = 0 => log = <<>>

\* C7 witness: three loops over the whole range were run in order and every
\* element of the counter array is 3.
C7_Witness ==
  /\ RunReturned
  /\ order = "ordered"
  /\ Len(held) = 3
  /\ segment = <<0, RangeLen>>
  /\ \A i \in DOMAIN counter : counter[i] = 3

(***************************************************************************)
(* Properties of SimpleVector and WorkGroupNode.                           *)
(***************************************************************************)
\* C12: clear restores the freshly constructed state, however often it is
\* called: after WorkGroupNode::clear the node equals a newly constructed
\* node (no loops, default arguments, m_instantiated true, an empty
\* instantiated group), and after SimpleVector::clear the vector equals a
\* newly constructed one (size 0, capacity 0), so what follows behaves as on
\* a fresh container.
C12_ClearRestoresFresh ==
  /\ nlog[1][1] = "clear" =>
       /\ node = NewWorkGroupNode
       /\ num_loops(node) = 0
       /\ node.m_args = "default"
       /\ node.m_instantiated
       /\ node.m_group = <<>>
  /\ vop[1] = "clear" =>
       /\ vec = NewSimpleVector
       /\ SV_size(vec) = 0
       /\ vec.cap = 0

\* C12 witness: a node that held loops and non-default arguments and a
\* vector that held two elements have both just been cleared.
C12_Witness ==
  /\ nlog[1][1] = "clear"
  /\ nlog[1][2] >= 1
  /\ vop[1] = "clear"
  /\ Len(vev) = 3
  /\ node = NewWorkGroupNode

\* C15: SimpleVector::reserve(n) grows the capacity to at least n only if
\* needed: with capacity >= n already it allocates nothing, relocates nothing
\* and leaves the capacity as it is; otherwise the elements move in order
\* into a block of capacity >= n; size and elements are unchanged in both
\* cases.
C15_ReserveOnlyIfNeeded ==
  [][vop'[1] = "reserve" =>
       /\ vec'.elems = vec.elems
       /\ vec.cap >= vop'[2] => (vec' = vec /\ valoc' = valoc /\ vev' = <<>>)
       /\ vec.cap < vop'[2] => vec'.cap >= vop'[2]
    ]_vars

\* C24: on a non-empty SimpleVector pop_back returns the value of the last
\* element, decreases size() by exactly one, leaves the capacity and the
\* remaining elements (values and order) unchanged, and allocates and
\* deallocates nothing; emplace_back followed by pop_back returns the value
\* emplaced and restores the element sequence there was.
C24_PopBack ==
  [][/\ (vop'[1] = "pop_back" /\ vec' # vec) =>
          /\ SV_size(vec) > 0
          /\ vop'[2] = vec.elems[SV_size(vec)]
          /\ SV_size(vec') = SV_size(vec) - 1
          /\ vec'.cap = vec.cap
          /\ vec'.m_begin = vec.m_begin
          /\ \A i \in 1..SV_size(vec') : vec'.elems[i] = vec.elems[i]
          /\ valoc' = valoc
          /\ \A k \in 1..Len(vev') : vev'[k][1] \notin {"allocate", "deallocate"}
     /\ vpc = "live" =>
          \A x \in 1..MaxVecElem :
            LET e == SV_emplace_back(vec, valoc, x)
                b == SV_pop_back(e.vec)
            IN /\ b.last = x
               /\ b.vec.elems = vec.elems
               /\ SV_size(b.vec) = SV_size(vec)
    ]_vars

\* C24 witness: pop_back has just returned the 2 that was last of <<1, 1, 2>>
\* in a vector of capacity 4.
C24_Witness ==
  /\ vop = <<"pop_back", 2>>
  /\ vec.elems = <<1, 1>>
  /\ vec.cap = 4
  /\ vpc = "live"

\* C25: for every live work record, in every storage variant and after any
\* number of relocations, the cached call pointer is the call function of
\* the record's vtable, which is the vtable of the holder type the record was
\* constructed with; so what WorkStruct::call invokes is the call function of
\* that type.
C25_CallPointerIsVtableCall ==
  /\ \A i \in 1..size(st) :
       LET r == RecordAt(st, i) IN
       r # Garbage =>
         /\ r.call_function_ptr = Vtable(r.vtable).call
         /\ r.vtable = r.obj.holder
         /\ i <= Len(emplaced) => r.vtable = emplaced[i].vtable
  /\ \A k \in 1..Len(log) :
       log[k].ev = "call" => log[k].fn = Vtable(log[k].obj.holder).call

\* C25 witness: the record of size 2 that two stride growths relocated is
\* being called through its cached pointer.
C25_Witness ==
  /\ variant = "constant_stride"
  /\ st.n_move_destroy >= 3
  /\ rpc = "in_call"
  /\ Len(log) > 0
  /\ log[Len(log)].ev = "call"
  /\ log[Len(log)].fn = <<"call", 2>>
  /\ log[Len(log)].pos = 2

\* a step of a run: it starts, enters or leaves a call, or returns
RunnerStep == rpc' # rpc \/ log' # log \/ iter' # iter

\* C26: run, ordered or reverse, only reads the storage: size(),
\* storage_size(), the stride, the offsets and every record's vtable and
\* payload are after each of its steps what they were before, so that a
\* second run on the same storage finds, and invokes, the same records in
\* the same order as the first.
C26_RunIsReadOnly ==
  [][/\ RunnerStep =>
          /\ st' = st
          /\ size(st') = size(st)
          /\ storage_size(st') = storage_size(st)
          /\ Iterate(st') = Iterate(st)
     /\ (runs >= 1 /\ runs' = runs + 1) =>
          /\ Iterate(st) = held
          /\ held' = held
    ]_vars

\* C26 witness: the second run over a storage of three records has returned.
C26_Witness ==
  /\ runs = 2
  /\ rpc = "build"
  /\ size(st) = 3
  /\ Len(log) = 6
  /\ held = Iterate(st)

\* the positions of the entries named what in the log lg
LogPositions(lg, what) == {k \in 1..Len(lg) : lg[k][1] = what}

\* what happens once in lg, and the one named a before the one named b
Once(lg, what) == Cardinality(LogPositions(lg, what)) = 1

Before(lg, a, b) ==
  \A i \in LogPositions(lg, a), j \in LogPositions(lg, b) : i < j

\* C29: when the execution resource type of a WorkGroupNode differs from the
\* graph resource type, exec does, in this order: wait on the graph
\* resource, run the work group on the default execution resource, make the
\* graph resource wait for the event of that run, return.  So the run never
\* starts before the graph resource's earlier work is complete, and the node
\* is not reported done before the event of its run has been waited for.
C29_ExecOrderAcrossResources ==
  [][(Len(nlog') > 0 /\ nlog'[1] = <<"exec", 0>>) =>
       /\ \A what \in {"gr.wait", "run", "gr.wait_for", "return"} : Once(nlog', what)
       /\ Before(nlog', "gr.wait", "run")
       /\ Before(nlog', "run", "gr.wait_for")
       /\ Before(nlog', "gr.wait_for", "return")
       /\ nlog'[Len(nlog')][1] = "return"
       /\ node'.m_site = WorkGroup_run(node'.m_group, node'.m_args)
    ]_vars

\* C29 witness: a node with two loops and the arguments x1 has been executed
\* on a graph resource of another type; its site is that of the run.
C29_Witness ==
  /\ nlog[1] = <<"exec", 0>>
  /\ Len(nlog) = 5
  /\ Len(node.m_site.ran) = 2
  /\ node.m_site.args = "x1"

\* the operation of the node that nlog records, in the state after a step
\* that changed the node or the log
NodeStepOf(what) ==
  /\ <<node, nlog>>' # <<node, nlog>>
  /\ nlog'[1][1] = what

\* C30: WorkGroupNode keeps m_instantiated consistent across enqueue,
\* instantiate, clear and exec: it is false exactly when an enqueue has
\* happened since the last instantiate, clear or construction (exec
\* instantiates first); exec always runs a group instantiated after the
\* most recent enqueue; instantiate repeated with no enqueue in between
\* re-instantiates the pool at most once.
C30_InstantiatedFlag ==
  [][/\ NewWorkGroupNode.m_instantiated
     /\ NodeStepOf("enqueue") => ~node'.m_instantiated
     /\ (NodeStepOf("instantiate") \/ NodeStepOf("clear") \/ NodeStepOf("exec")) =>
          node'.m_instantiated
     /\ NodeStepOf("set_args") => node'.m_instantiated = node.m_instantiated
     /\ NodeStepOf("exec") =>
          /\ node'.m_site.ran = node'.m_group
          /\ node'.m_group = IF node.m_instantiated THEN node.m_group
                             ELSE WorkPool_instantiate(node.m_pool).group
          /\ ~node.m_instantiated =>
               node'.m_group[Len(node'.m_group)] = node.m_pool[Len(node.m_pool)]
     /\ NodeStepOf("instantiate") =>
          /\ node.m_instantiated => node' = node
          /\ WGN_instantiate(node') = node'
    ]_vars

\* C30 witness: two loops were enqueued and the node executed on its own
\* resource type: the group run is the one instantiated from the two loops.
C30_Witness ==
  /\ nlog[1] = <<"exec", 1>>
  /\ node.m_instantiated
  /\ Len(node.m_group) = 2
  /\ node.m_site.ran = node.m_group
  /\ node.m_pool = <<>>

\* every storage that was constructed has been destroyed
AllStoragesDestroyed == rpc = "destroyed" /\ other = <<>>

\* C31: no leak and no double destroy: after any sequence of emplace,
\* reserve, move construction and move assignment, once all containers are
\* destroyed every block obtained from the allocator has been deallocated
\* (and every record in it destroyed); in particular a move assignment into
\* a container that holds records releases those records.
C31_NoLeakAfterDestruction ==
  AllStoragesDestroyed => st.aloc.live = {}

\* st is a constant-stride storage that was moved from (or move-assigned an
\* empty storage) and has since only been emplaced into and reserved
MovedFromConstantStride ==
  variant = "constant_stride" /\ st.n_moves > 0 /\ rpc = "build"

\* C32: a moved-from constant-stride storage, which keeps its old stride
\* while begin, end and cap become null, remains a valid empty storage:
\* after any emplaces since the move, including records smaller than the
\* retained stride, storage_size() <= capacity and size() is the number of
\* records emplaced since the move.
C32_MovedFromStaysValid ==
  MovedFromConstantStride =>
    /\ storage_size(st) <= storage_capacity(st)
    /\ size(st) = Len(emplaced)

\* C33: capacity never decreases: no reserve or emplace on a SimpleVector, a
\* ragged storage or a constant-stride storage leaves the container with a
\* smaller capacity than it had before the operation.
C33_CapacityNeverDecreases ==
  [][/\ storage_capacity(st') >= storage_capacity(st)
     /\ st'.m_vec.cap >= st.m_vec.cap
     /\ st'.m_offsets.cap >= st.m_offsets.cap]_vars

\* the positions of the calls of deallocate in a trace of memory events
Deallocations(ev) == {i \in DOMAIN ev : ev[i][1] = "deallocate"}

\* every deallocate of the trace passes a block that was live before the
\* operation or was allocated earlier in it, and passes it only once
ValidDeallocations(ev, live) ==
  \A i \in Deallocations(ev) :
    /\ ev[i][2] # 0
    /\ \/ ev[i][2] \in live
       \/ \E j \in 1..(i - 1) : ev[j][1] = "allocate" /\ ev[j][2] = ev[i][2]
    /\ \A j \in Deallocations(ev) : ev[j][2] = ev[i][2] => j = i

\* C35: every call of the allocator's deallocate, in SimpleVector and the
\* three storage variants, passes a pointer that allocate returned and that
\* was not deallocated yet: never a null pointer, never a block twice, over
\* any sequence of reserve, emplace and destruction, also on containers
\* that never allocated.
C35_DeallocateOnlyLiveBlocks ==
  [][/\ st'.events # st.events => ValidDeallocations(st'.events, st.aloc.live)
     /\ vev' # vev => ValidDeallocations(vev', valoc.live)]_vars

\* the offset table of the ragged storage
Offsets == st.m_offsets.elems

\* C36: in the ragged variant the offset table describes a gap-free
\* packing: the first offset is 0, offsets are strictly increasing, each is
\* the sum of the sizes of all earlier records, and the last offset plus the
\* last record's size is storage_size(); in the constant-stride variant
\* record i starts at byte offset i*stride.
C36_GapFreePacking ==
  /\ variant = "ragged" =>
       /\ Len(Offsets) = Len(Sizes)
       /\ \A i \in DOMAIN Offsets :
            /\ Offsets[i] = SumOver(Sizes, 1..(i - 1))
            /\ i > 1 => Offsets[i] > Offsets[i - 1]
       /\ Offsets # <<>> =>
            /\ Offsets[1] = 0
            /\ Offsets[Len(Offsets)] + Sizes[Len(Sizes)] = storage_size(st)
       /\ DOMAIN st.arena = {Offsets[i] : i \in DOMAIN Offsets}
  /\ variant = "constant_stride" =>
       DOMAIN st.arena = {(i - 1) * st.m_stride : i \in 1..size(st)}

\* C36 witness: three records of sizes 1, 3, 2 sit at offsets 0, 1, 4 of the
\* ragged arena, or at 0, 3, 6 of the constant-stride arena.
C36_Witness ==
  /\ Sizes = <<1, 3, 2>>
  /\ \/ variant = "ragged" /\ Offsets = <<0, 1, 4>>
     \/ variant = "constant_stride" /\ DOMAIN st.arena = {0, 3, 6}

\* the last operation on st was an emplace that failed in the allocator
EmplaceFailed(s) ==
  s.events # <<>> /\ s.events[Len(s.events)][1] = "allocate_failed"

\* C34: if the allocator fails during an emplace, at any of the allocations
\* the emplace may perform (record block, arena growth, pointer or offset
\* table growth), the failure propagates to the caller and the storage is
\* left unchanged: size(), storage_size() and the set of live records are
\* as before the emplace, and no record is constructed but untracked.
C34_FailedEmplaceLeavesStorageUnchanged ==
  [][EmplaceFailed(st') /\ st'.events # st.events =>
       /\ size(st') = size(st)
       /\ storage_size(st') = storage_size(st)
       /\ DOMAIN st'.heap = DOMAIN st.heap
       /\ DOMAIN st'.arena = DOMAIN st.arena
       /\ st'.aloc = st.aloc]_vars

\* C37: a ZipIterator keeps its component iterators in lockstep: after any
\* sequence of ++, --, += n and -= n every component has moved by the same
\* net distance from its starting position, so comparison and difference,
\* which look only at the first component, agree with every other
\* component, and += n followed by -= n restores the iterator.
C37_ZipLockstep ==
  /\ \A i \in Components :
       /\ zit[i] - zfirst[i] = zit[1] - zfirst[1]
       /\ ZipDiff(zit, zother) = zit[i] - zother[i]
       /\ ZipEq(zit, zother) <=> zit[i] = zother[i]
       /\ ZipLess(zit, zother) <=> zit[i] < zother[i]
       /\ ZipGreater(zit, zother) <=> zit[i] > zother[i]
  /\ \A n \in Steps : ZipMinusEq(ZipPlusEq(zit, n), n) = zit

\* C37 witness: components that began at different positions have been moved
\* by -= 2 to a net distance of 1, behind a copy taken at distance 3.
C37_Witness ==
  /\ zop = <<"-=", 2>>
  /\ zfirst[1] # zfirst[2]
  /\ zit[1] - zfirst[1] = 1
  /\ ZipDiff(zother, zit) = 2
  /\ ZipLess(zit, zother)

====
